---------------------------- MODULE Spec2Model ----------------------------
(***************************************************************************)
(* Model of the ALPIDE raw pixel codec, RawPixelReader<Mapping>            *)
(* (RawPixelReader.h): the encoder digits2raw / fillRULinks /              *)
(* flushSuperPages and the decoder cacheLinksData / decodeNextTrigger /    *)
(* decodeRUData / decodeAlpideData / getNextChipData.                      *)
(*                                                                         *)
(* Buffers (PayLoadCont) are byte addressed.  A buffer is a sequence of    *)
(* chunks, each with its size in bytes: an RDH page (the 64-byte RDH       *)
(* followed by GBT words of wsz bytes each), a run of zero bytes, or a     *)
(* run of bytes that are not an RDH.  A pointer is a byte offset.          *)
(* Lane masks are sets of cable indices; the ALPIDE payload is a sequence  *)
(* of bytes (0..255).                                                      *)
(***************************************************************************)
EXTENDS Integers, Sequences, FiniteSets, TLC

VARIABLES
  enc,      \* the RawPixelReader object used for encoding (its data members)
  sink,     \* the PayLoadCont handed to flushSuperPages, or the given file
  script,   \* the calls the encoding program still has to make
  dec,      \* the RawPixelReader object used for decoding
  file,     \* the bytes of the input file not read yet
  phase,    \* "encode", "skim", "skimmed", "cleared", "decode", "read" or "done"
  yielded,  \* history: the chips returned by getNextChipData, in order
  log,      \* history: the digits2raw calls made, with the pages they wrote
  skim      \* the skimming program: r its RawPixelReader object, out the
            \* PayLoadCont handed to skimNextRUData, on tells that it runs

vars == <<enc, sink, script, dec, file, phase, yielded, log, skim>>

(***************************************************************************)
(* Program constants                                                       *)
(***************************************************************************)
MaxLinksPerRU == 3
MaxChipsPerRU == 196
MaxGBTPacketBytes == 8192
NCRUPagesPerSuperpage == 256
DefaultMinTriggersToCache == NCRUPagesPerSuperpage + 10
RDHSize == 64
GBTWordLength == 10
GBTPaddedWordLength == 16
INTMAX == 2147483647
DummyNPages == 16777215
RawBufferMargin == 5000000
RawBufferSize == 10000000 + 2 * RawBufferMargin

Min(a, b) == IF a < b THEN a ELSE b
Max(a, b) == IF a > b THEN a ELSE b
SetMax(S) == CHOOSE x \in S : \A y \in S : y <= x
SetMin(S) == CHOOSE x \in S : \A y \in S : x <= y
\* the n-th (n = 0, 1, ...) smallest member of a set of integers
NthOf(S, n) == CHOOSE x \in S : Cardinality({y \in S : y < x}) = n

(***************************************************************************)
(* Chip mapping (the Mapping template parameter).  A small detector:       *)
(* RU 0 is of type 0 (inner barrel: one chip per cable, the chip id on     *)
(* the module equals the cable), the other RUs are of type 1 (two chips    *)
(* per cable, hardware cable ids differ from the software ones).           *)
(***************************************************************************)
NRUs == 2
CablesPerRU == 2
RUs == 0 .. NRUs - 1
Cables == 0 .. CablesPerRU - 1
Links == 0 .. MaxLinksPerRU - 1

RUType(ruSW) == IF ruSW = 0 THEN 0 ELSE 1
ChipsPerCable(ruType) == IF ruType = 0 THEN 1 ELSE 2
NChipsOnRUType(ruType) == CablesPerRU * ChipsPerCable(ruType)
FirstChipOfRU(ruSW) ==
  IF ruSW = 0 THEN 0 ELSE NChipsOnRUType(0) + (ruSW - 1) * NChipsOnRUType(1)
NChips == FirstChipOfRU(NRUs)
CablesOnRUType(ruType) == Cables
CableSW2HW(ruType, cableSW) == IF ruType = 0 THEN cableSW ELSE 2 * cableSW + 1
CableHW2SW(ruType, cableHW) == IF ruType = 0 THEN cableHW ELSE (cableHW - 1) \div 2
\* ChipInfo of a global chip id: its RU and its id within the RU
ChipInfoSW(chipSW) ==
  LET ru == CHOOSE r \in RUs : FirstChipOfRU(r) <= chipSW /\ chipSW < FirstChipOfRU(r + 1)
  IN  [ru |-> ru, chOnRU |-> chipSW - FirstChipOfRU(ru)]
ChipOnRUInfo(ruType, chOnRU) ==
  LET cab == chOnRU \div ChipsPerCable(ruType)
  IN  [cableSW |-> cab, cableHW |-> CableSW2HW(ruType, cab),
       chipOnModuleHW |-> IF ruType = 0 THEN chOnRU ELSE chOnRU % ChipsPerCable(ruType)]
GlobalChipID(chOnModuleHW, cableHW, ruSW) ==
  FirstChipOfRU(ruSW) +
    (IF RUType(ruSW) = 0 THEN CableHW2SW(0, cableHW)
     ELSE CableHW2SW(1, cableHW) * ChipsPerCable(1) + chOnModuleHW)
RUSW2FEEId(ruSW, linkID) == 256 * linkID + ruSW
FEEId2RUSW(feeId) == feeId % 256
\* the cable flag written into byte 9 of a GBT data word, and its inverse
GBTHeaderRUType(ruType, cableHW) == 32 * (ruType + 1) + cableHW
GetCableID(flag) == flag % 32

(***************************************************************************)
(* ALPIDE chip codec (AlpideCoder), on bytes.                              *)
(*   chip header  1010<chip id>  <bc>      chip empty  1110<chip id> <bc>  *)
(*   chip trailer 1011<flags>              region      110<region>         *)
(*   data short   01<encoder:4><addr:10>   (two bytes)                     *)
(* A pixel (row, col) is region col \div 32, encoder (col % 32) \div 2,    *)
(* address 2 * row + col % 2.                                              *)
(***************************************************************************)
CHIPHEADER == 160
CHIPTRAILER == 176
CHIPEMPTY == 224
REGION == 192
DATASHORT == 64

IsChipHeader(b) == b \div 16 = CHIPHEADER \div 16
IsChipEmpty(b) == b \div 16 = CHIPEMPTY \div 16
IsChipTrailer(b) == b \div 16 = CHIPTRAILER \div 16
IsRegion(b) == b \div 32 = REGION \div 32
IsDataShort(b) == b \div 64 = DATASHORT \div 64
IsChipHeaderOrEmpty(b) == IsChipHeader(b) \/ IsChipEmpty(b)

BCByte(bc) == (bc \div 8) % 256
RegionOf(pix) == pix.col \div 32
PixBytes(pix) ==
  LET encId == (pix.col % 32) \div 2
      addr == 2 * pix.row + (pix.col % 2)
  IN  <<DATASHORT + 4 * encId + (addr \div 256), addr % 256>>
\* the bytes of hit i of pixs: a region header when the region changes
HitBytes(pixs, i) ==
  IF i = 1 \/ RegionOf(pixs[i - 1]) # RegionOf(pixs[i])
  THEN <<REGION + RegionOf(pixs[i])>> \o PixBytes(pixs[i])
  ELSE PixBytes(pixs[i])
\* number of region headers among the first i hits
NRegionHeaders(pixs, i) ==
  Cardinality({j \in 1 .. i : j = 1 \/ RegionOf(pixs[j - 1]) # RegionOf(pixs[j])})
\* bytes of the hit records of pixs, flattened
HitsBytes(pixs) ==
  LET n     == Len(pixs)
      tot   == 2 * n + NRegionHeaders(pixs, n)
      \* offset of the first byte of hit j
      Off(j) == 2 * (j - 1) + NRegionHeaders(pixs, j - 1)
      Hit(k) == CHOOSE j \in 1 .. n : Off(j) < k /\ (j = n \/ k <= Off(j + 1))
  IN  IF n = 0 THEN <<>>
      ELSE IF NRegionHeaders(pixs, n) = 1
      THEN [k \in 1 .. tot |->
              IF k = 1 THEN REGION + RegionOf(pixs[1])
              ELSE PixBytes(pixs[((k - 2) \div 2) + 1])[((k - 2) % 2) + 1]]
      ELSE [k \in 1 .. tot |-> HitBytes(pixs, Hit(k))[k - Off(Hit(k))]]
EncodeChip(pixs, chipOnModuleHW, bc) ==
  IF Len(pixs) = 0 THEN <<CHIPEMPTY + chipOnModuleHW, BCByte(bc)>>
  ELSE <<CHIPHEADER + chipOnModuleHW, BCByte(bc)>> \o HitsBytes(pixs) \o <<CHIPTRAILER>>
AddEmptyChip(chipOnModuleHW, bc) == <<CHIPEMPTY + chipOnModuleHW, BCByte(bc)>>


(***************************************************************************)
(* RAWDataHeader, GBT words, PayLoadCont                                   *)
(***************************************************************************)
PhT == "PhT"
SOT == "SOT"
PacketDone == "PacketDone"

\* ok: the heuristic of isRDHHeuristic holds (headerSize = 64 and the
\* reserved fields are zero).  triggerType is the set of its set bits.
MakeRDH(fee, link, pcnt, stp, msz, off, ir, trg) ==
  [ok |-> TRUE, feeId |-> fee, linkID |-> link, pageCnt |-> pcnt, stop |-> stp,
   memorySize |-> msz, offsetToNext |-> off, orbit |-> ir.orbit, bc |-> ir.bc,
   hbOrbit |-> ir.orbit, hbBC |-> ir.bc, trgType |-> trg]
\* 64 zero bytes read as an RDH
ZeroRDH ==
  [ok |-> FALSE, feeId |-> 0, linkID |-> 0, pageCnt |-> 0, stop |-> 0,
   memorySize |-> 0, offsetToNext |-> 0, orbit |-> 0, bc |-> 0,
   hbOrbit |-> 0, hbBC |-> 0, trgType |-> {}]

\* GBT words.  t: "H" data header, "D" data, "T" data trailer, "X" anything else
GBTDataHeader(pid, lanes) ==
  [t |-> "H", lanes |-> lanes, pid |-> pid, tmo |-> {}, st |-> {}, flag |-> 0, pl |-> <<>>]
GBTDataTrailer(lanesStop, lanesTimeout, state) ==
  [t |-> "T", lanes |-> lanesStop, pid |-> 0, tmo |-> lanesTimeout, st |-> state,
   flag |-> 0, pl |-> <<>>]
GBTData(flag, payload) ==
  [t |-> "D", lanes |-> {}, pid |-> 0, tmo |-> {}, st |-> {}, flag |-> flag, pl |-> payload]

\* chunks of a byte buffer
PageChunk(rdh, words, wsz) ==
  [k |-> "page", sz |-> RDHSize + wsz * Len(words), rdh |-> rdh, w |-> words, wsz |-> wsz]
ZeroChunk(n) == [k |-> "zero", sz |-> n, rdh |-> ZeroRDH, w |-> <<>>, wsz |-> 0]
\* n bytes that are no RDH; read as an RDH they give the fields of rdh
JunkChunk(n, rdh) ==
  [k |-> "junk", sz |-> n, rdh |-> [rdh EXCEPT !.ok = FALSE], w |-> <<>>, wsz |-> 0]

RECURSIVE BytesOf(_)
BytesOf(chunks) ==
  IF Len(chunks) = 0 THEN 0 ELSE chunks[1].sz + BytesOf(Tail(chunks))
\* byte offset of chunk i in chunks
StartOf(chunks, i) == BytesOf(SubSeq(chunks, 1, i - 1))
\* the chunk that starts exactly at byte offset pos, or 0
ChunkAt(chunks, pos) ==
  LET S == {i \in 1 .. Len(chunks) : StartOf(chunks, i) = pos /\ chunks[i].sz > 0}
  IN  IF S = {} THEN 0 ELSE SetMin(S)
\* the chunk that holds byte offset pos, or 0 (pos is at or beyond the end)
ChunkHolding(chunks, pos) ==
  LET S == {i \in 1 .. Len(chunks) :
              StartOf(chunks, i) <= pos /\ pos < StartOf(chunks, i) + chunks[i].sz}
  IN  IF S = {} THEN 0 ELSE SetMin(S)

\* PayLoadCont: c the stored bytes (as chunks), p the read pointer
EmptyCont == [c |-> <<>>, p |-> 0]
ContSize(buf) == BytesOf(buf.c)
ContUnused(buf) == IF buf.p < ContSize(buf) THEN ContSize(buf) - buf.p ELSE 0
ContIsEmpty(buf) == buf.p >= ContSize(buf)
\* PayLoadCont of a cable: b the bytes, p the number of bytes consumed
EmptyCable == [b |-> <<>>, p |-> 0]
CableUnused(cd) == IF cd.p < Len(cd.b) THEN Len(cd.b) - cd.p ELSE 0

\* the bytes [pos, pos + n) of chunks, as chunks.  Whole chunks are kept, a run
\* of zeros is cut, a page cut at its end keeps its RDH and its whole words,
\* any other piece is junk; bytes beyond the end are junk too.
RECURSIVE Slice(_, _, _)
Slice(chunks, pos, n) ==
  IF n <= 0 THEN <<>>
  ELSE IF Len(chunks) = 0 THEN <<JunkChunk(n, ZeroRDH)>>
  ELSE LET c == chunks[1]
       IN  IF pos >= c.sz THEN Slice(Tail(chunks), pos - c.sz, n)
           ELSE LET m     == Min(n, c.sz - pos)
                    piece ==
                      IF pos = 0 /\ m = c.sz THEN c
                      ELSE IF c.k = "zero" THEN ZeroChunk(m)
                      ELSE IF c.k = "page" /\ pos = 0 /\ m >= RDHSize
                      THEN [c EXCEPT !.sz = m,
                                     !.w = SubSeq(c.w, 1, Min(Len(c.w), (m - RDHSize) \div c.wsz))]
                      ELSE JunkChunk(m, IF pos = 0 THEN c.rdh ELSE ZeroRDH)
                IN  <<piece>> \o Slice(Tail(chunks), 0, n - m)

(***************************************************************************)
(* The RawPixelReader object                                               *)
(***************************************************************************)
ErrNames ==
  {"ErrPageCounterDiscontinuity", "ErrRDHvsGBTHPageCnt", "ErrMissingGBTHeader",
   "ErrMissingGBTTrailer", "ErrNonZeroPageAfterStop", "ErrUnstoppedLanes",
   "ErrDataForStoppedLane", "ErrNoDataForActiveLane", "ErrIBChipLaneMismatch",
   "ErrCableDataHeadWrong"}

NewRUDecodingStat ==
  [lanesActive |-> {}, lanesStop |-> {}, lanesTimeOut |-> {}, lanesWithData |-> {},
   nPackets |-> 0, errorCounts |-> [e \in ErrNames |-> 0], packetStates |-> <<>>]
NewRawDecodingStat ==
  [nPagesProcessed |-> 0, nRUsProcessed |-> 0, nBytesProcessed |-> 0,
   nNonEmptyChips |-> 0, nHitsDecoded |-> 0]
NoIR == [orbit |-> 0, bc |-> 0]
\* links[il]: on = FALSE is the null pointer
NoLink == [on |-> FALSE, data |-> EmptyCont, lastPageSize |-> 0, nTriggers |-> 0, lanes |-> {}]
NewRULink == [NoLink EXCEPT !.on = TRUE]
\* ruInfo: the software id of the RU, -1 is the null pointer
NewRUDecodeData ==
  [cableData |-> [c \in Cables |-> EmptyCable], cableHWID |-> [c \in Cables |-> 0],
   chipsData |-> <<>>, links |-> [l \in Links |-> NoLink],
   statistics |-> NewRUDecodingStat, nCables |-> 0, nChipsFired |-> 0,
   lastChipChecked |-> 0, ruInfo |-> -1,
   \* history: the RDHs of the pages whose words went to the cable buffers
   cableSrc |-> [c \in Cables |-> {}]]
NewReader(padding, maxPage) ==
  [mPadding128 |-> padding, mImposeMaxPage |-> maxPage,
   mRUDecodeVec |-> [s \in RUs |-> NewRUDecodeData], mRUEntry |-> [r \in RUs |-> -1],
   mNRUs |-> 0, mNLinks |-> 0, mMinTriggersToCache |-> DefaultMinTriggersToCache,
   mMinTriggersCached |-> 0, mCurRUDecodeID |-> -1,
   mInteractionRecord |-> NoIR, mInteractionRecordHB |-> NoIR, mTrigger |-> {},
   mDecodingStat |-> NewRawDecodingStat, mRawBuffer |-> EmptyCont,
   \* fault: "none", or how the call in progress died or hung
   \* ub: what the accesses outside the stored bytes do during the current call
   \* cached, pastEnd, nDecoded: history of the decoding calls
   fault |-> "none", ub |-> "zero", cached |-> <<>>, pastEnd |-> 0, nDecoded |-> 0]
GBTWordSize(r) == IF r.mPadding128 THEN GBTPaddedWordLength ELSE GBTWordLength

GetCreateRUDecode(r, ruSW) ==
  IF r.mRUEntry[ruSW] < 0
  THEN [r EXCEPT !.mRUEntry[ruSW] = r.mNRUs, !.mNRUs = r.mNRUs + 1,
                 !.mRUDecodeVec[r.mNRUs].ruInfo = ruSW]
  ELSE r


(***************************************************************************)
(* Encoder                                                                 *)
(***************************************************************************)
RECURSIVE SumOver(_, _)
\* sum of f[c] over the members of the finite set S
SumOver(f, S) ==
  IF S = {} THEN 0 ELSE LET c == CHOOSE x \in S : TRUE IN f[c] + SumOver(f, S \ {c})

ClearTrigger(ruData) ==
  [ruData EXCEPT !.cableData = [c \in Cables |->
                                  IF c < ruData.nCables THEN EmptyCable ELSE ruData.cableData[c]],
                 !.cableSrc = [c \in Cables |->
                                 IF c < ruData.nCables THEN {} ELSE ruData.cableSrc[c]],
                 !.nCables = 0]
\* a variant that keeps the statistics of the RU
ClearRUKeepStatistics(ruData) == ClearTrigger(ruData)
\* RUDecodeData::clear() and RawPixelReader::clear()
ClearRU(ruData) == [ClearTrigger(ruData) EXCEPT !.statistics = NewRUDecodingStat]
Clear(r) ==
  [r EXCEPT !.mDecodingStat = NewRawDecodingStat,
            !.mRUDecodeVec = [s \in RUs |-> ClearRU(r.mRUDecodeVec[s])],
            !.mNLinks = 0,
            !.mNRUs = 0,
            !.mRawBuffer = EmptyCont]

\* pixels ordered by row, then column
PixLess(a, b) == a.row < b.row \/ (a.row = b.row /\ a.col < b.col)

ConvertChip(ruData, chipData, bc) ==
  LET chip == ChipOnRUInfo(RUType(ruData.ruInfo), chipData.chipID)
      cab  == chip.cableSW
  IN  [ruData EXCEPT !.cableHWID[cab] = chip.cableHW,
                     !.cableData[cab].b =
                        @ \o EncodeChip(SortSeq(chipData.pix, PixLess), chip.chipOnModuleHW, bc)]

\* a variant that writes no chip-empty marker
ConvertNoEmptyChips(ruData, fromChip, uptoChip, bc) == ruData
RECURSIVE ConvertEmptyChips(_, _, _, _)
ConvertEmptyChips(ruData, fromChip, uptoChip, bc) ==
  IF fromChip >= uptoChip THEN ruData
  ELSE LET chip == ChipOnRUInfo(RUType(ruData.ruInfo), fromChip)
           cab  == chip.cableSW
       IN  ConvertEmptyChips(
             [ruData EXCEPT !.cableHWID[cab] = chip.cableHW,
                            !.cableData[cab].b = @ \o AddEmptyChip(chip.chipOnModuleHW, bc)],
             fromChip + 1, uptoChip, bc)

\* the loop over the fired chips of digits2raw, from chip entry ich on
RECURSIVE ConvertFiredChips(_, _, _, _)
ConvertFiredChips(ruData, ich, next2Proc, bc) ==
  IF ich > ruData.nChipsFired
  THEN ConvertEmptyChips(ruData, next2Proc, NChipsOnRUType(RUType(ruData.ruInfo)), bc)
  ELSE LET chipData == ruData.chipsData[ich]
           ru1      == ConvertEmptyChips(ruData, next2Proc, chipData.chipID, bc)
           ru2      == ConvertChip(ru1, chipData, bc)
           ru3      == [ru2 EXCEPT !.chipsData[ich].pix = <<>>]
       IN  ConvertFiredChips(ru3, ich + 1, chipData.chipID + 1, bc)

\* data words a page can hold
MaxGBTWordsPerPacket == (MaxGBTPacketBytes - RDHSize) \div GBTPaddedWordLength - 2
ClipToPage(n) == IF n > MaxGBTPacketBytes THEN MaxGBTPacketBytes ELSE n
\* GBT words needed for nb bytes of a cable
NWordsFor(nb) == IF nb > 0 THEN 1 + (nb - 1) \div 9 ELSE 0

\* The order in which the do-while loop of fillRULinks writes the first T data
\* words of a page: cables are visited cyclically from cable 0, a cable gives
\* one word per visit while it has words left (rem[c + 1] for cable c).  Entry
\* i names the cable of word i and the number k of words taken from it so far.
RoundRobin(rem, cabs, T) ==
  LET Levels == {0} \cup {rem[c + 1] : c \in cabs}
      Cum    == [v \in Levels |-> SumOver([c \in cabs |-> Min(rem[c + 1], v)], cabs)]
      Lo(i)  == SetMax({v \in Levels : Cum[v] < i})
  IN  [i \in 1 .. T |->
         LET lo == Lo(i)
             A  == {c \in cabs : rem[c + 1] > lo}
             o  == i - Cum[lo] - 1
         IN  [cab |-> NthOf(A, o % Cardinality(A)), k |-> lo + (o \div Cardinality(A)) + 1]]

\* the k-th 9-byte piece of the unread bytes of a cable, zero padded
CablePiece(cd, k) ==
  LET from == cd.p + 9 * (k - 1)
  IN  [j \in 1 .. 9 |-> IF from + j <= Len(cd.b) THEN cd.b[from + j] ELSE 0]

\* rdh.stop of page pageCnt when needed words are still to write (457, 513)
PageStop(pageCnt, needed) ==
  IF pageCnt > 0 /\ needed < MaxGBTWordsPerPacket THEN 1 ELSE 0
\* a variant that leaves the packet id of every page at 0
HeaderPacketIDStuck(pageCnt) == 0
\* the packet id set in the GBT data header of page pageCnt (470, 527)
HeaderPacketID(pageCnt) == pageCnt
\* a variant that breaks the page one word too late
WordsOnPageOneMore(needed) == Min(needed, MaxGBTWordsPerPacket + 1)
\* data words written on a page when needed words are still to write (500, 506)
WordsOnPage(needed) == Min(needed, MaxGBTWordsPerPacket)
\* a variant that closes every page with the trailer of the last one
PageTrailerAlwaysFinal(lanes, last) == GBTDataTrailer(lanes, {}, {PacketDone})
\* the trailer closing a page (468, 508, 536)
PageTrailer(lanes, last) ==
  IF last THEN GBTDataTrailer(lanes, {}, {PacketDone}) ELSE GBTDataTrailer({}, {}, {})

\* The pages written by fillRULinks on link il for the words still to write:
\* rem[c + 1] words are left on cable c, done[c + 1] were written on earlier
\* pages (0 for the cables not served by the link).
RECURSIVE LinkPages(_, _, _, _, _, _, _)
\* the page at hand, rr the order of its data words, and the pages after it
LinkPage(r, ruData, il, cabs, rem, done, pageCnt, needed, rr) ==
  LET lanes  == ruData.links[il].lanes
      T      == Len(rr)
      taken  == [k \in 1 .. CablesPerRU |-> Cardinality({i \in 1 .. T : rr[i].cab = k - 1})] \o <<>>
      last   == needed - T = 0
      msz    == ClipToPage(RDHSize + (needed + 2) *
                           (IF pageCnt = 0 THEN GBTWordSize(r) ELSE GBTPaddedWordLength))
      rdh    == MakeRDH(RUSW2FEEId(ruData.ruInfo, il), il, pageCnt,
                        PageStop(pageCnt, needed),
                        msz, IF r.mImposeMaxPage THEN MaxGBTPacketBytes ELSE msz,
                        r.mInteractionRecord, {PhT})
      words  == [i \in 1 .. T |->
                   GBTData(GBTHeaderRUType(RUType(ruData.ruInfo), ruData.cableHWID[rr[i].cab]),
                           CablePiece(ruData.cableData[rr[i].cab], done[rr[i].cab + 1] + rr[i].k))]
      page   == PageChunk(rdh, <<GBTDataHeader(HeaderPacketID(pageCnt), lanes)>> \o words \o
                               <<PageTrailer(lanes, last)>>,
                          GBTWordSize(r))
  IN  <<page>> \o
      (IF last THEN <<>>
       ELSE LinkPages(r, ruData, il, cabs,
                      [k \in 1 .. CablesPerRU |-> rem[k] - taken[k]] \o <<>>,
                      [k \in 1 .. CablesPerRU |-> done[k] + taken[k]] \o <<>>,
                      pageCnt + 1))
\* the pages from the page at hand on when needed words are still to write
LinkPagesFor(r, ruData, il, cabs, rem, done, pageCnt, needed) ==
  LinkPage(r, ruData, il, cabs, rem, done, pageCnt, needed,
           RoundRobin(rem, cabs, WordsOnPage(needed)) \o <<>>)
LinkPages(r, ruData, il, cabs, rem, done, pageCnt) ==
  LinkPagesFor(r, ruData, il, cabs, rem, done, pageCnt,
               SumOver([c \in cabs |-> rem[c + 1]], cabs))

\* the pages written for link il are in the link buffer, the cables are read
AddPages(r, il, cabs, pages) ==
  [r EXCEPT !.mRUDecodeVec[r.mCurRUDecodeID].links[il].data.c = @ \o pages,
            !.mRUDecodeVec[r.mCurRUDecodeID].links[il].nTriggers = @ + Len(pages),
            !.mRUDecodeVec[r.mCurRUDecodeID].cableData =
               [c \in Cables |->
                  IF c \in cabs
                  THEN [@[c] EXCEPT !.p = Len(r.mRUDecodeVec[r.mCurRUDecodeID].cableData[c].b)]
                  ELSE @[c]]]
\* fillRULinks for link il of the RU in slot r.mCurRUDecodeID
FillLink(r, il) ==
  LET ruData == r.mRUDecodeVec[r.mCurRUDecodeID]
      link   == ruData.links[il]
      cabs   == {c \in Cables : c < ruData.nCables /\ c \in link.lanes}
      needed == SumOver([c \in cabs |-> NWordsFor(Len(ruData.cableData[c].b))], cabs)
      rem    == [k \in 1 .. CablesPerRU |->
                   IF k - 1 \in cabs THEN NWordsFor(CableUnused(ruData.cableData[k - 1])) ELSE 0] \o <<>>
  IN  IF ~link.on THEN r
      ELSE IF needed # SumOver([c \in cabs |-> rem[c + 1]], cabs)
      THEN [r EXCEPT !.fault = "hang"]   \* the do-while loop never sees nGBTWordsNeeded = 0
      ELSE AddPages(r, il, cabs,
                    LinkPages(r, ruData, il, cabs, rem, [k \in 1 .. CablesPerRU |-> 0], 0))

RECURSIVE FillLinksFrom(_, _)
FillLinksFrom(r, il) ==
  IF il >= MaxLinksPerRU \/ r.fault # "none" THEN r ELSE FillLinksFrom(FillLink(r, il), il + 1)

\* the end of fillRULinks: clearTrigger and nChipsFired = 0 (549)
EndOfFill(r) ==
  IF r.fault # "none" THEN r
  ELSE [r EXCEPT !.mRUDecodeVec[r.mCurRUDecodeID] =
                    [ClearTrigger(@) EXCEPT !.nChipsFired = 0, !.chipsData = <<>>]]
FillRULinks(r) ==
  EndOfFill(FillLinksFrom([r EXCEPT !.mRUDecodeVec[r.mCurRUDecodeID].nCables = CablesPerRU], 0))

\* containers are booked for the RUs ru .. ruSWMax (digits2raw, the loop at 332)
RECURSIVE BookRUs(_, _, _)
BookRUs(r, ru, ruSWMax) ==
  IF ru > ruSWMax THEN r
  ELSE LET r1     == GetCreateRUDecode(r, ru)
           slot   == r1.mRUEntry[ru]
           ruData == r1.mRUDecodeVec[slot]
           nLinks == Cardinality({il \in Links : ruData.links[il].on})
           r2     == [r1 EXCEPT !.mNLinks = @ + nLinks]
           r3     == IF nLinks = 0
                     THEN [r2 EXCEPT !.mRUDecodeVec[slot].links[0] =
                                        [NewRULink EXCEPT !.lanes = CablesOnRUType(RUType(ruData.ruInfo))],
                                     !.mNLinks = @ + 1]
                     ELSE r2
       IN  BookRUs(r3, ru + 1, ruSWMax)

NewChipData(id) == [chipID |-> id, ir |-> NoIR, trigger |-> {}, pix |-> <<>>,
                    \* history: the RU, the cable and the place on the cable the chip
                    \* was decoded from, the RDHs of the pages of that cable, and
                    \* the number of the decodeNextTrigger call
                    ru |-> -1, cab |-> -1, seq |-> 0, src |-> {}, ntrig |-> 0]

\* The chip buffers opened by the loop at 349 of digits2raw, in order: a digit
\* of a chip in the RU range opens a new buffer when the last digit of a chip
\* in range was of another chip (curChipID).
ChipBuffers(digs, ruSWMin, ruSWMax) ==
  LET n        == Len(digs)
      inr      == [i \in 1 .. n |-> LET ru == ChipInfoSW(digs[i].chip).ru
                                    IN  ruSWMin <= ru /\ ru <= ruSWMax]
      PrevIn(i) == IF i = 1 THEN 0
                   ELSE IF inr[i - 1] THEN i - 1
                   ELSE LET S == {j \in 1 .. i - 1 : inr[j]}
                        IN  IF S = {} THEN 0 ELSE SetMax(S)
      opens    == [i \in 1 .. n |-> inr[i] /\ (PrevIn(i) = 0 \/ digs[PrevIn(i)].chip # digs[i].chip)]
      starts   == SelectSeq([i \in 1 .. n |-> i], LAMBDA i : opens[i])
      EndOf(e) == IF e = Len(starts) THEN n ELSE starts[e + 1] - 1
      InRU(d)  == LET ru == ChipInfoSW(d.chip).ru IN ruSWMin <= ru /\ ru <= ruSWMax
  IN  [e \in 1 .. Len(starts) |->
         LET mine == SelectSeq(SubSeq(digs, starts[e], EndOf(e)), InRU)
         IN  [ru  |-> ChipInfoSW(digs[starts[e]].chip).ru,
              buf |-> [NewChipData(ChipInfoSW(digs[starts[e]].chip).chOnRU) EXCEPT
                         !.pix = [k \in 1 .. Len(mine) |-> [row |-> mine[k].row, col |-> mine[k].col]]]]]

\* the loop at 366 of digits2raw, from container mCurRUDecodeID = ru on
RECURSIVE ConvertRUs(_, _, _)
ConvertRUs(r, ru, ruSWMax) ==
  IF ru > ruSWMax \/ r.fault # "none" THEN [r EXCEPT !.mCurRUDecodeID = ru]
  ELSE LET r1 == [r EXCEPT !.mCurRUDecodeID = ru]
           ruData == r1.mRUDecodeVec[ru]
       IN  IF ruData.ruInfo < 0 THEN [r1 EXCEPT !.fault = "nullptr"]
           ELSE LET conv == ConvertFiredChips(ruData, 1, 0, r1.mInteractionRecord.bc)
                IN  ConvertRUs(FillRULinks([r1 EXCEPT !.mRUDecodeVec[ru] = conv]), ru + 1, ruSWMax)

\* the chip buffers filled by the loop at 349 are in the containers of their RUs
PlaceDigits(r, bufs) ==
  [r EXCEPT
     !.mRUDecodeVec = [s \in RUs |->
        LET mine == SelectSeq(bufs, LAMBDA e : e.ru = s)
        IN  [r.mRUDecodeVec[s] EXCEPT
               !.chipsData = @ \o [k \in 1 .. Len(mine) |-> mine[k].buf],
               !.nChipsFired = @ + Len(mine)]],
     !.mCurRUDecodeID = IF Len(bufs) = 0 THEN @ ELSE bufs[Len(bufs)].ru]
Digits2Raw(r, digs, bcData, ruSWMin, ruSWMaxArg) ==
  LET ruSWMax == IF ruSWMaxArg < NRUs THEN ruSWMaxArg ELSE NRUs - 1
      r1   == [r EXCEPT !.mInteractionRecord = bcData]
      r2   == IF r1.mNRUs < ruSWMax - ruSWMin THEN BookRUs(r1, ruSWMin, ruSWMax) ELSE r1
  IN  ConvertRUs(PlaceDigits(r2, ChipBuffers(digs, ruSWMin, ruSWMax)), ruSWMin, ruSWMax)
\* the value fillRULinks returns for the container in slot sl: the least
\* nTriggers of its links, 0 when it has none (428, 544 - 551)
FillRULinksReturn(r, sl) ==
  LET counts == {r.mRUDecodeVec[sl].links[il].nTriggers :
                   il \in {l \in Links : r.mRUDecodeVec[sl].links[l].on}}
  IN  IF counts = {} \/ SetMin(counts) >= DummyNPages THEN 0 ELSE SetMin(counts)
\* the value digits2raw returns, r being the reader when it returns: the least
\* of the values fillRULinks returned for the containers ruSWMin .. ruSWMax,
\* minPages = 0xffffff when there was none (365, 377 - 383)
Digits2RawReturn(r, ruSWMin, ruSWMaxArg) ==
  LET ruSWMax == IF ruSWMaxArg < NRUs THEN ruSWMaxArg ELSE NRUs - 1
      rets    == {FillRULinksReturn(r, ru) : ru \in ruSWMin .. ruSWMax}
  IN  IF rets = {} THEN DummyNPages ELSE Min(DummyNPages, SetMin(rets))

\* the while loop at 574 of flushSuperPages for one link: the link buffer, the
\* sink and the page counter after at most maxPages - nPages more pages; lost:
\* the read pointer is not at an RDH, what is read as memorySize is arbitrary
RECURSIVE FlushLink(_, _, _, _)
FlushLink(link, snk, nPages, maxPages) ==
  IF nPages >= maxPages \/ ContIsEmpty(link.data)
  THEN [link |-> link, sink |-> snk, nPages |-> nPages, lost |-> FALSE]
  ELSE IF ChunkAt(link.data.c, link.data.p) = 0
  THEN [link |-> link, sink |-> snk, nPages |-> nPages, lost |-> TRUE]
  ELSE LET rdh == link.data.c[ChunkAt(link.data.c, link.data.p)].rdh
           cp  == Slice(link.data.c, link.data.p, rdh.memorySize)
           pad == IF MaxGBTPacketBytes - rdh.memorySize > 0
                  THEN <<ZeroChunk(MaxGBTPacketBytes - rdh.memorySize)>> ELSE <<>>
       IN  FlushLink([link EXCEPT !.data.p = @ + rdh.memorySize, !.nTriggers = @ - 1],
                     [snk EXCEPT !.c = @ \o cp \o pad], nPages + 1, maxPages)

MoveUnusedToHead(buf) == [c |-> Slice(buf.c, buf.p, ContUnused(buf)), p |-> 0]

\* the link flushed is compacted; its pages are in the sink and counted
AfterFlushLink(st, slot, il, fl) ==
  [r |-> [st.r EXCEPT !.mRUDecodeVec[slot].links[il] =
                         [fl.link EXCEPT !.data = MoveUnusedToHead(fl.link.data)],
                      !.fault = IF fl.lost THEN "lostRDH" ELSE @],
   sink |-> fl.sink, totPages |-> st.totPages + fl.nPages]
\* flushSuperPages from RU ru, link il on; st holds the reader, the sink and totPages
RECURSIVE FlushFrom(_, _, _, _)
FlushFrom(st, ru, il, maxPages) ==
  IF ru >= NRUs THEN st
  ELSE IF il >= MaxLinksPerRU \/ st.r.mRUEntry[ru] < 0 THEN FlushFrom(st, ru + 1, 0, maxPages)
  ELSE LET slot == st.r.mRUEntry[ru]
           link == st.r.mRUDecodeVec[slot].links[il]
       IN  IF ~link.on \/ ContIsEmpty(link.data) THEN FlushFrom(st, ru, il + 1, maxPages)
           ELSE FlushFrom(AfterFlushLink(st, slot, il, FlushLink(link, st.sink, 0, maxPages)),
                          ru, il + 1, maxPages)
FlushSuperPages(r, snk, maxPages) ==
  FlushFrom([r |-> r, sink |-> snk, totPages |-> 0], 0, 0, maxPages)

(***************************************************************************)
(* Decoder: reading the input and caching pages per link                   *)
(***************************************************************************)
\* What an access outside the stored bytes of a buffer does is not defined by
\* the program.  UBOutcomes are the outcomes modelled: the bytes read are
\* zeros ("zero"), the bytes read look like the RDH of a following page of
\* the trigger at hand ("same"), the access kills the process ("crash").
UBOutcomes == {"zero", "same", "crash"}
StrayRDH(ub, ref) ==
  IF ub = "same" THEN [ref EXCEPT !.ok = FALSE, !.pageCnt = ref.pageCnt + 1] ELSE ZeroRDH

\* position pos of chunks holds stored bytes
Stored(chunks, pos) == 0 <= pos /\ pos < BytesOf(chunks)
\* the RDH read at a position: at is the chunk that starts there, hold the
\* chunk that holds it (0: none)
RDHAt(ub, chunks, at, hold, ref) ==
  IF at # 0 /\ chunks[at].sz >= RDHSize THEN chunks[at].rdh
  ELSE IF hold # 0 /\ chunks[hold].k = "zero" THEN ZeroRDH
  ELSE IF hold # 0 THEN ZeroRDH     \* bytes inside a page: no RDH
  ELSE StrayRDH(ub, ref)
\* the bytes at pos read as an RDH; ref is the RDH the caller compares with
ReadRDH(ub, chunks, pos, ref) ==
  RDHAt(ub, chunks, ChunkAt(chunks, pos), ChunkHolding(chunks, pos), ref)

IsRDHHeuristic(rdh) == rdh.ok

IsSameRUandTrigger(rdhOld, rdhNew) ==
  ~ \/ rdhNew.pageCnt = 0
    \/ rdhNew.feeId # rdhOld.feeId
    \/ rdhNew.orbit # rdhOld.orbit
    \/ rdhNew.bc # rdhOld.bc
    \/ rdhNew.hbOrbit # rdhOld.hbOrbit
    \/ rdhNew.hbBC # rdhOld.hbBC
    \/ rdhNew.trgType \cap rdhOld.trgType = {}

\* st = [r, file]: the reader and the bytes left in its input file; the
\* result has also nread.  The read asks for the free capacity of the buffer.
LoadInput(st) ==
  LET buf   == st.r.mRawBuffer
      nread == Min(BytesOf(st.file), RawBufferSize - ContSize(buf))
  IN  IF ContUnused(buf) > RawBufferMargin \/ nread <= 0
      THEN [r |-> st.r, file |-> st.file, nread |-> 0]
      ELSE [r |-> [st.r EXCEPT !.mRawBuffer.c = @ \o Slice(st.file, 0, nread),
                               !.mDecodingStat.nBytesProcessed = @ + nread],
            file |-> Slice(st.file, nread, BytesOf(st.file) - nread),
            nread |-> nread]

\* the search of findNextRDH in the buffer of ld, the result of the load
FindNextRDHIn(ld) ==
  LET buf  == ld.r.mRawBuffer
      hits == {q \in {StartOf(buf.c, i) : i \in 1 .. Len(buf.c)} :
                 /\ q > buf.p /\ (q - buf.p) % GBTPaddedWordLength = 0
                 /\ IsRDHHeuristic(ReadRDH(ld.r.ub, buf.c, q, ZeroRDH))}
      over == buf.p + GBTPaddedWordLength *
                ((ContSize(buf) - buf.p + GBTPaddedWordLength - 1) \div GBTPaddedWordLength)
  IN  IF ld.nread = 0 THEN [r |-> ld.r, file |-> ld.file, found |-> FALSE]
      ELSE IF hits # {}
      THEN [r |-> [ld.r EXCEPT !.mRawBuffer.p = SetMin(hits)], file |-> ld.file, found |-> TRUE]
      ELSE [r |-> [ld.r EXCEPT !.mRawBuffer.p = Max(over, buf.p + GBTPaddedWordLength)],
            file |-> ld.file, found |-> FALSE]
\* findNextRDH: the result has also found
FindNextRDH(st) ==
  FindNextRDHIn(IF ContIsEmpty(st.r.mRawBuffer) THEN LoadInput(st)
                ELSE [r |-> st.r, file |-> st.file, nread |-> 1])

\* a variant that puts the new page in front of the pages stored
AddToLinkInFront(stored, bytes) == bytes \o stored
\* link->data.add(ptr, rdh->memorySize) (645)
AddToLink(stored, bytes) == stored \o bytes

\* the value mMinTriggersCached gets at the end of cacheLinksData (675)
MinTriggersCached(r, nLEnoughTriggers) ==
  IF r.mNLinks = nLEnoughTriggers THEN r.mMinTriggersToCache
  ELSE LET counts == {r.mRUDecodeVec[x[1]].links[x[2]].nTriggers :
                        x \in {y \in RUs \X Links :
                                 y[1] < r.mNRUs /\ r.mRUDecodeVec[y[1]].links[y[2]].on}}
       IN  IF counts = {} THEN INTMAX ELSE Min(INTMAX, SetMin(counts))

\* The do-while loop of cacheLinksData.  lp = [r, file, ptr, rdhAt, enough]:
\* ptr and rdhAt are the local variables ptr and rdh (positions in the raw
\* buffer), enough the set of (RU, link) flagged in enoughTriggers.
RECURSIVE CacheLoop(_)
\* The page of rdh has offsetToNext = 0 and the loop goes on: ptr += 0 (660)
\* leaves ptr on the page, which the next iteration caches again, and so on.
\* The copies are new triggers of the link when the RDH does not go on with
\* itself (pageCnt 0), and the loop ends once the link has mMinTriggersToCache
\* of them if no other link lacks triggers ("recached"); else no counter
\* that the loop tests changes and the loop does not end ("hang").  The
\* repetitions themselves are not unfolded.
Recaching(rdh, enough, r) ==
  IF ~IsSameRUandTrigger(rdh, rdh)
     /\ r.mNLinks = Cardinality(enough \cup {<<FEEId2RUSW(rdh.feeId), rdh.linkID>>})
  THEN "recached" ELSE "hang"
\* the end of an iteration: ld is the state after the load (662), enough the
\* links flagged; the loop goes on while links lack triggers and data is left
CacheNext(rdh, enough, ld) ==
  LET nxt == [r |-> ld.r, file |-> ld.file, ptr |-> ld.r.mRawBuffer.p,
              rdhAt |-> ld.r.mRawBuffer.p, enough |-> enough]
  IN  IF ld.r.fault # "none" \/ ld.r.mNLinks = Cardinality(enough)
         \/ ContIsEmpty(ld.r.mRawBuffer)
      THEN nxt
      ELSE IF IsRDHHeuristic(rdh) /\ rdh.offsetToNext = 0
      THEN [nxt EXCEPT !.r.fault = Recaching(rdh, enough, ld.r)]
      ELSE CacheLoop(nxt)
\* if (mRawBuffer.getUnusedSize() < MaxGBTPacketBytes) loadInput (662)
LoadIfLow(r, inp) ==
  IF ContUnused(r.mRawBuffer) < MaxGBTPacketBytes THEN LoadInput([r |-> r, file |-> inp])
  ELSE [r |-> r, file |-> inp, nread |-> 0]
\* the page at ptr is added to link link0 of the container in slot; copy are
\* its bytes, newTrigger tells if it starts a trigger of the link
CacheAdd(lp, rdh, inp, bad, ptr, r1, slot, link0, copy, newTrigger) ==
  LET ruIDSW == FEEId2RUSW(rdh.feeId)
      \* rdhC->offsetToNext = rdh->memorySize
      fixed == IF Len(copy) = 0 THEN copy
               ELSE [copy EXCEPT ![1].rdh.offsetToNext = rdh.memorySize]
      link  == IF link0.on THEN link0 ELSE NewRULink
      nTriggers == IF newTrigger THEN link.nTriggers + 1 ELSE link.nTriggers
      stray == (link0.on /\ ~Stored(link0.data.c, ContSize(link0.data) - link0.lastPageSize))
               \/ Len(copy) = 0
  IN  CacheNext(rdh,
                IF newTrigger /\ nTriggers >= r1.mMinTriggersToCache
                THEN lp.enough \cup {<<ruIDSW, rdh.linkID>>} ELSE lp.enough,
                LoadIfLow([r1 EXCEPT
                             !.mRUDecodeVec[slot].links[rdh.linkID] =
                                [link EXCEPT
                                   !.data.c = AddToLink(@, fixed),
                                   !.lastPageSize = rdh.memorySize,
                                   !.nTriggers = nTriggers],
                             !.mNLinks = IF link0.on THEN @ ELSE @ + 1,
                             !.mDecodingStat.nBytesProcessed = @ + rdh.memorySize,
                             !.mDecodingStat.nPagesProcessed = @ + 1,
                             !.mRawBuffer.p = ptr + rdh.offsetToNext,
                             !.fault = IF stray /\ r1.ub = "crash" THEN "crash" ELSE @,
                             !.cached = Append(@, [ru |-> ruIDSW, link |-> rdh.linkID,
                                                   size |-> rdh.memorySize,
                                                   at |-> ReadRDH(r1.ub, r1.mRawBuffer.c, ptr, ZeroRDH),
                                                   resync |-> bad, newTrigger |-> newTrigger])],
                          inp))
\* the link of the page is looked up in the container of its RU (632 - 643)
CacheLink(lp, rdh, inp, bad, ptr, r1, slot, link0) ==
  CacheAdd(lp, rdh, inp, bad, ptr, r1, slot, link0,
           Slice(r1.mRawBuffer.c, ptr, rdh.memorySize),
           ~(link0.on /\ IsSameRUandTrigger(
                           ReadRDH(r1.ub, link0.data.c, ContSize(link0.data) - link0.lastPageSize, rdh),
                           rdh)))
CacheInRU(lp, rdh, inp, bad, ptr, ruIDSW, r1) ==
  CacheLink(lp, rdh, inp, bad, ptr, r1, r1.mRUEntry[ruIDSW],
            r1.mRUDecodeVec[r1.mRUEntry[ruIDSW]].links[rdh.linkID])
\* rdh is what the local variable rdh points to, fnd the result of the
\* search for a page made when it is no RDH (622 - 627)
CachePage(lp, rdh, bad, fnd) ==
  IF ~fnd.found THEN [lp EXCEPT !.r = fnd.r, !.file = fnd.file]
  ELSE IF FEEId2RUSW(rdh.feeId) \notin RUs \/ rdh.linkID \notin Links
  THEN [lp EXCEPT !.r = [fnd.r EXCEPT !.fault = "outOfRange"], !.file = fnd.file]
  ELSE CacheInRU(lp, rdh, fnd.file, bad, IF bad THEN fnd.r.mRawBuffer.p ELSE lp.ptr,
                 FEEId2RUSW(rdh.feeId), GetCreateRUDecode(fnd.r, FEEId2RUSW(rdh.feeId)))
CacheRDH(lp, rdh) ==
  CachePage(lp, rdh, ~IsRDHHeuristic(rdh),
            IF ~IsRDHHeuristic(rdh) THEN FindNextRDH([r |-> lp.r, file |-> lp.file])
            ELSE [r |-> lp.r, file |-> lp.file, found |-> TRUE])
CacheLoop(lp) == CacheRDH(lp, ReadRDH(lp.r.ub, lp.r.mRawBuffer.c, lp.rdhAt, ZeroRDH))

\* the end of cacheLinksData: mMinTriggersCached is set (675)
CacheEnd(lp) ==
  [r |-> IF lp.r.fault # "none" THEN lp.r
         ELSE [lp.r EXCEPT !.mMinTriggersCached = MinTriggersCached(lp.r, Cardinality(lp.enough))],
   file |-> lp.file]
\* cacheLinksData after its first loadInput
CacheLoaded(ld) ==
  IF ContIsEmpty(ld.r.mRawBuffer) THEN [r |-> ld.r, file |-> ld.file]
  ELSE CacheEnd(CacheLoop([r |-> ld.r, file |-> ld.file, ptr |-> ld.r.mRawBuffer.p,
                           rdhAt |-> ld.r.mRawBuffer.p, enough |-> {}]))
\* st = [r, file]
CacheLinksData(st) == CacheLoaded(LoadInput(st))

(***************************************************************************)
(* Decoder: GBT pages to cable streams                                     *)
(***************************************************************************)
\* bytes that are no GBT header, data or trailer word of the expected size
StrayWord == [t |-> "X", lanes |-> {}, pid |-> 0, tmo |-> {}, st |-> {}, flag |-> 0,
              pl |-> <<0, 0, 0, 0, 0, 0, 0, 0, 0>>]
\* the first n words of wsz bytes that follow the RDH at pos
WordsAfterRDH(chunks, pos, wsz, n) ==
  LET at == ChunkAt(chunks, pos)
      w  == IF at # 0 /\ chunks[at].k = "page" /\ chunks[at].wsz = wsz THEN chunks[at].w ELSE <<>>
  IN  [i \in 1 .. n |-> IF i <= Len(w) THEN w[i] ELSE StrayWord]

Count(stat, err, n) == [stat EXCEPT !.errorCounts[err] = @ + n]

\* the result of decodeRUData; past counts the reads outside the stored bytes
PagesOut(d, ru, stat, raw, aborted, fault, past) ==
  [ru |-> [ru EXCEPT !.statistics = stat], raw |-> raw, aborted |-> aborted,
   fault |-> fault, pastEnd |-> d.pastEnd + past]
\* the checks made at the GBT header of a page (850 - 868)
CheckPacketID(stat, rdh, gbtH) ==
  IF gbtH.pid # rdh.pageCnt THEN Count(stat, "ErrRDHvsGBTHPageCnt", 1) ELSE stat
CheckPageAfterStop(stat, rdh) ==
  IF stat.lanesActive = stat.lanesStop /\ rdh.pageCnt # 0
  THEN Count(stat, "ErrNonZeroPageAfterStop", 1) ELSE stat
StartPage(stat, rdh, gbtH) ==
  [stat EXCEPT !.lanesActive = gbtH.lanes,
               !.lanesStop = IF rdh.pageCnt = 0 THEN {} ELSE @,
               !.lanesWithData = IF rdh.pageCnt = 0 THEN {} ELSE @]
\* the checks made when the next page is of another trigger or RU (930 - 946)
CheckUnstopped(stat, rdh) ==
  IF stat.lanesActive # stat.lanesStop /\ rdh.trgType # {SOT}
  THEN Count(stat, "ErrUnstoppedLanes", 1) ELSE stat
CheckActiveLanes(stat) ==
  IF (stat.lanesActive \ stat.lanesWithData) # stat.lanesTimeOut
  THEN Count(stat, "ErrNoDataForActiveLane", 1) ELSE stat
\* a variant that takes only a counter that does not grow as a discontinuity
CheckPageCounterGrowing(stat, rdh, rdhN) ==
  IF rdhN.pageCnt <= rdh.pageCnt THEN Count(stat, "ErrPageCounterDiscontinuity", 1) ELSE stat
\* the check made when the next page goes on with the trigger (952)
CheckPageCounter(stat, rdh, rdhN) ==
  IF rdhN.pageCnt # rdh.pageCnt + 1 THEN Count(stat, "ErrPageCounterDiscontinuity", 1) ELSE stat
\* nGBTWords = (rdh->memorySize - sizeof(RDH)) / mGBTWordSize - 2
NGBTWords(rdh, wsz) == (rdh.memorySize - RDHSize) \div wsz - 2

\* The while loop of decodeRUData.  d = [ru, chunks, pos, ub, wsz, pastEnd]:
\* ru the RU container, pos the position of the RDH of the page at hand in the
\* link bytes chunks.  The result has also raw, aborted and fault.
RECURSIVE DecodePages(_, _)
\* rdhN are the bytes at next, where rdh->offsetToNext leads (925 - 958)
DecodeNextPage(d, rdh, gbtT, ru1, stat, next, rdhN) ==
  LET stray == ~Stored(d.chunks, next)
  IN  IF stray /\ d.ub = "crash"
      THEN PagesOut(d, ru1, stat, next, FALSE, "crash", 1)
      ELSE IF ~IsSameRUandTrigger(rdh, rdhN)
      THEN PagesOut(d, ru1,
                    [CheckActiveLanes(CheckUnstopped(stat, rdh)) EXCEPT
                       !.packetStates = Append(@, gbtT.st)],
                    next, FALSE, "none", IF stray THEN 1 ELSE 0)
      ELSE DecodePages([d EXCEPT !.ru = [ru1 EXCEPT !.statistics = CheckPageCounter(stat, rdh, rdhN)],
                                 !.pos = next,
                                 !.pastEnd = @ + (IF stray THEN 1 ELSE 0)], rdhN)
\* the page is read up to its trailer gbtT (921 - 923)
DecodePageEnd(d, rdh, gbtT, nData, ru1, stat) ==
  IF rdh.offsetToNext = 0
  THEN PagesOut(d, ru1, stat, d.pos + RDHSize + d.wsz * (nData + 2), FALSE, "none", 0)
  ELSE DecodeNextPage(d, rdh, gbtT, ru1, stat, d.pos + rdh.offsetToNext,
                      ReadRDH(d.ub, d.chunks, d.pos + rdh.offsetToNext, rdh))
\* gbtT is the word after the nData data words of the page (900 - 916)
DecodePageTrailer(d, rdh, gbtT, nData, ru1, stat) ==
  IF gbtT.t # "T"
  THEN PagesOut(d, ru1, Count(stat, "ErrMissingGBTTrailer", 1),
                d.pos + RDHSize + d.wsz * (nData + 1), TRUE, "none", 0)
  ELSE DecodePageEnd(d, rdh, gbtT, nData, ru1,
                     [stat EXCEPT !.lanesTimeOut = @ \cup gbtT.tmo, !.lanesStop = @ \cup gbtT.lanes])
\* a variant that counts a page with data for stopped lanes once
CheckStoppedLanesPerPage(stat, cabOf, seen) ==
  Count([stat EXCEPT !.lanesWithData = @ \cup seen], "ErrDataForStoppedLane",
        IF seen \cap stat.lanesStop # {} THEN 1 ELSE 0)
\* the flags set for the data words of a page, cabOf their lanes (891 - 895)
CheckStoppedLanes(stat, cabOf, seen) ==
  Count([stat EXCEPT !.lanesWithData = @ \cup seen], "ErrDataForStoppedLane",
        Cardinality({i \in DOMAIN cabOf : cabOf[i] \in stat.lanesStop}))
\* the nData data words of the page go to the buffers of their cables (871 - 898)
DecodePageData(d, rdh, words, nData, stat) ==
  LET type  == RUType(d.ru.ruInfo)
      cabOf == [i \in 2 .. nData + 1 |-> CableHW2SW(type, GetCableID(words[i].flag))]
      seen  == {cabOf[i] : i \in 2 .. nData + 1}
      Mine(c) == SelectSeq([k \in 1 .. nData |-> k + 1], LAMBDA i : cabOf[i] = c)
      Bytes(c) == LET mine == Mine(c)
                  IN  [j \in 1 .. 9 * Len(mine) |-> words[mine[((j - 1) \div 9) + 1]].pl[((j - 1) % 9) + 1]]
  IN  IF seen \ Cables # {}
      THEN PagesOut(d, d.ru, stat, d.pos + RDHSize, TRUE, "outOfRange", 0)
      ELSE DecodePageTrailer(d, rdh, words[nData + 2], nData,
             [d.ru EXCEPT
                !.cableData = [c \in Cables |->
                   IF c \in seen THEN [@[c] EXCEPT !.b = @ \o Bytes(c)] ELSE @[c]],
                !.cableHWID = [c \in Cables |->
                   IF c \in seen
                   THEN GetCableID(words[SetMax({i \in 2 .. nData + 1 : cabOf[i] = c})].flag)
                   ELSE @[c]],
                !.cableSrc = [c \in Cables |->
                   IF c \in seen THEN @[c] \cup {[orbit |-> rdh.orbit, bc |-> rdh.bc, trg |-> rdh.trgType]}
                   ELSE @[c]]],
             CheckStoppedLanes(stat, cabOf, seen))
\* words are the GBT words that follow the RDH of the page (832 - 868)
DecodePageWords(d, rdh, nGBTWords, words) ==
  LET trailers == {i \in 2 .. nGBTWords + 1 : words[i].t = "T"}
  IN  IF words[1].t # "H"
      THEN PagesOut(d, d.ru, Count(d.ru.statistics, "ErrMissingGBTHeader", 1),
                    d.pos + RDHSize, TRUE, "none", 0)
      ELSE DecodePageData(d, rdh, words,
                          IF trailers # {} THEN SetMin(trailers) - 2 ELSE Max(nGBTWords, 0),
                          StartPage(CheckPageAfterStop(CheckPacketID(d.ru.statistics, rdh, words[1]),
                                                       rdh),
                                    rdh, words[1]))
DecodePages(d, rdh) ==
  DecodePageWords(d, rdh, NGBTWords(rdh, d.wsz),
                  WordsAfterRDH(d.chunks, d.pos, d.wsz, Max(NGBTWords(rdh, d.wsz), 0) + 2) \o <<>>)

\* decodeRUData once the RDH at raw is read
DecodeRUDataFrom(ub, wsz, ruData, chunks, raw, rdh) ==
  IF ~IsRDHHeuristic(rdh)
  THEN [ru |-> ruData, raw |-> raw + wsz, aborted |-> TRUE, fault |-> "none", pastEnd |-> 0]
  ELSE DecodePages([ru |-> [ruData EXCEPT !.statistics.nPackets = @ + 1,
                                          !.nCables = CablesPerRU],
                    chunks |-> chunks, pos |-> raw, ub |-> ub, wsz |-> wsz, pastEnd |-> 0], rdh)
\* decodeRUData on the bytes of a link from position raw on
DecodeRUData(ub, wsz, ruData, chunks, raw) ==
  DecodeRUDataFrom(ub, wsz, ruData, chunks, raw, ReadRDH(ub, chunks, raw, ZeroRDH))
(***************************************************************************)
(* Skimming: padded CRU pages to pages of the real payload                 *)
(***************************************************************************)
GBTFlagDataHeader == 224
GBTFlagDataTrailer == 240
\* byte b of a stored GBT word.  Byte 9 tells the kind of the word; the lane
\* masks start at byte 0 of a header or a trailer, the other bytes of these
\* words and the padding of a padded word are taken as 0.
GBTByte(w, b) ==
  IF b = 9 THEN (IF w.t = "H" THEN GBTFlagDataHeader
                 ELSE IF w.t = "T" THEN GBTFlagDataTrailer ELSE w.flag)
  ELSE IF b < 9 /\ w.t = "D" THEN w.pl[b + 1]
  ELSE IF b = 0 /\ w.t \in {"H", "T"} THEN SumOver([c \in Cables |-> 2 ^ c], w.lanes \cap Cables)
  ELSE 0
\* byte off of the words w of wsz bytes each; 0 beyond them
WordByte(w, wsz, off) ==
  IF off \div wsz + 1 > Len(w) THEN 0 ELSE GBTByte(w[off \div wsz + 1], off % wsz)
\* the 10 bytes at off, read as a GBT word, of words stored with another size
WordAcross(w, wsz, off) ==
  LET flag == WordByte(w, wsz, off + 9)
  IN  IF off \div wsz + 1 > Len(w) THEN StrayWord
      ELSE [t |-> IF flag = GBTFlagDataHeader THEN "H"
                  ELSE IF flag = GBTFlagDataTrailer THEN "T" ELSE "D",
            lanes |-> {}, pid |-> 0, tmo |-> {}, st |-> {}, flag |-> flag,
            pl |-> [k \in 1 .. 9 |-> WordByte(w, wsz, off + k - 1)]]
\* the first n words that follow the RDH at pos, taken every
\* GBTPaddedWordLength bytes whatever the size the words were written with
PaddedWordsAfterRDH(chunks, pos, n) ==
  LET at  == ChunkAt(chunks, pos)
      w   == IF at # 0 /\ chunks[at].k = "page" THEN chunks[at].w ELSE <<>>
      wsz == IF at # 0 /\ chunks[at].k = "page" THEN chunks[at].wsz ELSE GBTPaddedWordLength
  IN  [i \in 1 .. n |->
         IF wsz = GBTPaddedWordLength THEN (IF i <= Len(w) THEN w[i] ELSE StrayWord)
         ELSE IF i = 1 /\ Len(w) >= 1 THEN w[1]
         ELSE WordAcross(w, wsz, GBTPaddedWordLength * (i - 1))]

\* a variant that leaves in the output buffer the pages written before an abort
SkimOutKeepsPages(d, stat, raw, aborted, fault, past) ==
  [r |-> [d.r EXCEPT !.mRUDecodeVec[d.slot].statistics = stat,
                     !.fault = fault, !.pastEnd = @ + d.pastEnd + past],
   pages |-> d.acc, raw |-> raw, aborted |-> aborted, written |-> Len(d.acc)]
\* the result of skimPaddedRUData: r the reader, pages the pages that the
\* call leaves in outBuffer behind what it held (none if aborted:
\* outBuffer.shrinkToSize(sizeAtEntry)), written the number of pages that the
\* call wrote to it
SkimOut(d, stat, raw, aborted, fault, past) ==
  [r |-> [d.r EXCEPT !.mRUDecodeVec[d.slot].statistics = stat,
                     !.fault = fault, !.pastEnd = @ + d.pastEnd + past],
   pages |-> IF aborted \/ fault # "none" THEN <<>> ELSE d.acc,
   raw |-> raw, aborted |-> aborted, written |-> Len(d.acc)]

\* The while loop of skimPaddedRUData.  d = [r, slot, acc, chunks, pos,
\* pastEnd]: slot the container of the RU, acc the pages written by this call,
\* pos the position of the RDH of the page at hand in the raw buffer chunks.
RECURSIVE SkimPages(_, _)
\* rdhN are the bytes at next, where rdh->offsetToNext leads (1153 - 1187)
SkimNextPage(d, rdh, gbtT, stat, next, rdhN) ==
  LET stray == ~Stored(d.chunks, next)
  IN  IF stray /\ d.r.ub = "crash"
      THEN SkimOut(d, stat, next, FALSE, "crash", 1)
      ELSE IF ~IsSameRUandTrigger(rdh, rdhN)
      THEN SkimOut(d, [CheckActiveLanes(CheckUnstopped(stat, rdh)) EXCEPT
                         !.packetStates = Append(@, gbtT.st)],
                   next, FALSE, "none", IF stray THEN 1 ELSE 0)
      ELSE SkimPages([d EXCEPT !.r.mRUDecodeVec[d.slot].statistics =
                                  CheckPageCounter(stat, rdh, rdhN),
                               !.pos = next,
                               !.pastEnd = @ + (IF stray THEN 1 ELSE 0)], rdhN)
\* the page is written, with its memorySize and offsetToNext (1141 - 1151)
SkimPageEnd(d, rdh, gbtT, nData, stat) ==
  IF rdh.offsetToNext = 0
  THEN SkimOut(d, stat, d.pos + RDHSize + GBTPaddedWordLength * (nData + 2), FALSE, "none", 0)
  ELSE SkimNextPage(d, rdh, gbtT, stat, d.pos + rdh.offsetToNext,
                    ReadRDH(d.r.ub, d.chunks, d.pos + rdh.offsetToNext, rdh))
\* a variant that leaves the memorySize and offsetToNext of the input page
SkimPageTrailerSameSize(d, rdh, words, nData, stat) ==
  LET gbtT == words[nData + 2]
      page == PageChunk(rdh, SubSeq(words, 1, nData + 2), GBTWordSize(d.r))
  IN  IF gbtT.t # "T"
      THEN SkimOut(d, Count(stat, "ErrMissingGBTTrailer", 1),
                   d.pos + RDHSize + GBTPaddedWordLength * (nData + 1), TRUE, "none", 0)
      ELSE SkimPageEnd([d EXCEPT !.acc = Append(@, page)], rdh, gbtT, nData,
                       [stat EXCEPT !.lanesTimeOut = @ \cup gbtT.tmo, !.lanesStop = @ \cup gbtT.lanes])
\* gbtT is the word after the nData data words of the page (1121 - 1147)
SkimPageTrailer(d, rdh, words, nData, stat) ==
  LET gbtT == words[nData + 2]
      size == RDHSize + (2 + nData) * GBTWordSize(d.r)
      page == PageChunk([rdh EXCEPT !.memorySize = size, !.offsetToNext = size],
                        SubSeq(words, 1, nData + 2), GBTWordSize(d.r))
  IN  IF gbtT.t # "T"
      THEN SkimOut(d, Count(stat, "ErrMissingGBTTrailer", 1),
                   d.pos + RDHSize + GBTPaddedWordLength * (nData + 1), TRUE, "none", 0)
      ELSE SkimPageEnd([d EXCEPT !.acc = Append(@, page)], rdh, gbtT, nData,
                       [stat EXCEPT !.lanesTimeOut = @ \cup gbtT.tmo, !.lanesStop = @ \cup gbtT.lanes])
\* the nData data words of the page are copied (1092 - 1119).  A cable
\* outside the lanes of the RU shifts the lane mask by an undefined amount.
SkimPageData(d, rdh, words, nData, stat) ==
  LET type  == RUType(d.r.mRUDecodeVec[d.slot].ruInfo)
      cabOf == [i \in 2 .. nData + 1 |-> CableHW2SW(type, GetCableID(words[i].flag))]
      seen  == {cabOf[i] : i \in 2 .. nData + 1}
  IN  IF seen \ Cables # {} /\ d.r.ub = "crash"
      THEN SkimOut(d, stat, d.pos + RDHSize, FALSE, "crash", 0)
      ELSE SkimPageTrailer(d, rdh, words, nData,
             Count([stat EXCEPT !.lanesWithData = @ \cup (seen \cap Cables)],
                   "ErrDataForStoppedLane",
                   Cardinality({i \in 2 .. nData + 1 : cabOf[i] \in stat.lanesStop})))
\* words are the GBT words that follow the RDH of the page (1042 - 1083)
SkimPageWords(d, rdh, nGBTWords, words) ==
  LET trailers == {i \in 2 .. nGBTWords + 1 : words[i].t = "T"}
      stat     == d.r.mRUDecodeVec[d.slot].statistics
  IN  IF words[1].t # "H"
      THEN SkimOut(d, Count(stat, "ErrMissingGBTHeader", 1), d.pos + RDHSize, TRUE, "none", 0)
      ELSE SkimPageData(d, rdh, words,
                        IF trailers # {} THEN SetMin(trailers) - 2 ELSE Max(nGBTWords, 0),
                        StartPage(CheckPageAfterStop(CheckPacketID(stat, rdh, words[1]), rdh),
                                  rdh, words[1]))
SkimPages(d, rdh) ==
  SkimPageWords([d EXCEPT !.r.mDecodingStat.nPagesProcessed = @ + 1,
                          !.r.mDecodingStat.nBytesProcessed = @ + rdh.memorySize],
                rdh, NGBTWords(rdh, GBTPaddedWordLength),
                PaddedWordsAfterRDH(d.chunks, d.pos,
                                    Max(NGBTWords(rdh, GBTPaddedWordLength), 0) + 2) \o <<>>)

\* skimPaddedRUData once the RDH at raw is read and its RU is known to r1
SkimRU(r1, slot, rdh, raw) ==
  SkimPages([r |-> [r1 EXCEPT !.mInteractionRecord = [orbit |-> rdh.orbit, bc |-> rdh.bc],
                              !.mTrigger = rdh.trgType,
                              !.mInteractionRecordHB = [orbit |-> rdh.hbOrbit, bc |-> rdh.hbBC],
                              !.mRUDecodeVec[slot].statistics.nPackets = @ + 1,
                              !.mDecodingStat.nRUsProcessed = @ + 1],
             slot |-> slot, acc |-> <<>>, chunks |-> r1.mRawBuffer.c, pos |-> raw,
             pastEnd |-> 0], rdh)
SkimFrom(r, raw, rdh) ==
  IF ~IsRDHHeuristic(rdh)
  THEN [r |-> r, pages |-> <<>>, raw |-> raw, aborted |-> TRUE, written |-> 0]
  ELSE IF FEEId2RUSW(rdh.feeId) \notin RUs
  THEN [r |-> [r EXCEPT !.fault = "outOfRange"], pages |-> <<>>, raw |-> raw, aborted |-> FALSE,
        written |-> 0]
  ELSE SkimRU(GetCreateRUDecode(r, FEEId2RUSW(rdh.feeId)),
              GetCreateRUDecode(r, FEEId2RUSW(rdh.feeId)).mRUEntry[FEEId2RUSW(rdh.feeId)],
              rdh, raw)
\* skimPaddedRUData(raw, outBuffer, aborted) on the raw buffer of r
SkimPaddedRUData(r, raw) ==
  SkimFrom(r, raw, ReadRDH(r.ub, r.mRawBuffer.c, raw, ZeroRDH))

\* skimNextRUData(outBuffer): st = [r, file, out]; res is the value returned
SkimSeek(fnd, out) ==
  [r |-> IF fnd.found THEN fnd.r ELSE [fnd.r EXCEPT !.mRawBuffer = EmptyCont],
   file |-> fnd.file, out |-> out, res |-> IF fnd.found THEN 1 ELSE 0]
SkimmedRU(ld, out, sk) ==
  IF sk.r.fault # "none"
  THEN [r |-> sk.r, file |-> ld.file, out |-> out, res |-> 0]
  ELSE IF sk.aborted
  THEN SkimSeek(FindNextRDH([r |-> sk.r, file |-> ld.file]), [out EXCEPT !.c = @ \o sk.pages])
  ELSE [r |-> IF sk.raw >= ContSize(sk.r.mRawBuffer)
              THEN [sk.r EXCEPT !.mRawBuffer = EmptyCont]
              ELSE [sk.r EXCEPT !.mRawBuffer.p = sk.raw],
        file |-> ld.file,
        out |-> [out EXCEPT !.c = @ \o sk.pages],
        res |-> 1]
SkimLoaded(ld, out) ==
  IF ContIsEmpty(ld.r.mRawBuffer)
  THEN [r |-> ld.r, file |-> ld.file, out |-> out, res |-> 0]
  ELSE SkimmedRU(ld, out, SkimPaddedRUData(ld.r, ld.r.mRawBuffer.p))
SkimNextRUData(st) ==
  SkimLoaded(LoadInput([r |-> st.r, file |-> st.file]), st.out)

(***************************************************************************)
(* Decoder: cable streams to chips (AlpideCoder::decodeChip)               *)
(***************************************************************************)
DecodeHit(b1, b2, region) ==
  LET encId == (b1 % 64) \div 4
      addr  == (b1 % 4) * 256 + b2
  IN  [row |-> addr \div 2, col |-> 32 * region + 2 * encId + (addr % 2)]

\* the records of a chip from position p on, up to its trailer
RECURSIVE ParseHits(_, _, _)
ParseHits(b, p, region) ==
  IF p > Len(b) THEN [pix |-> <<>>, next |-> p, ok |-> FALSE]
  ELSE IF IsChipTrailer(b[p]) THEN [pix |-> <<>>, next |-> p + 1, ok |-> TRUE]
  ELSE IF IsRegion(b[p]) THEN ParseHits(b, p + 1, b[p] % 32)
  ELSE IF IsDataShort(b[p])
  THEN LET stops == {k \in 0 .. (Len(b) - p) \div 2 + 1 :
                       p + 2 * k > Len(b) \/ ~IsDataShort(b[p + 2 * k])}
           K     == SetMin(stops)
           run   == [k \in 1 .. K |->
                       DecodeHit(b[p + 2 * (k - 1)],
                                 IF p + 2 * k - 1 <= Len(b) THEN b[p + 2 * k - 1] ELSE 0, region)]
           rest  == ParseHits(b, p + 2 * K, region)
       IN  [rest EXCEPT !.pix = run \o @]
  ELSE [pix |-> <<>>, next |-> Len(b) + 1, ok |-> FALSE]

\* the chips with hits found in the bytes of a cable from position p on, by
\* the calls of decodeChip that the loop of line 1237 makes as long as the
\* result is not 0: chip-empty records are passed over, a zero byte ends the
\* payload (result 0), another byte where a chip should start is a malformed
\* record (negative result) and the next call goes on behind it.  A chip is
\* found with the position of its last byte (end).  ParseSome makes at most
\* n calls and tells where the next call would start.
RECURSIVE ParseSome(_, _, _)
ParseSome(b, p, n) ==
  IF n = 0 \/ p > Len(b) THEN [chips |-> <<>>, next |-> p]
  ELSE IF IsChipEmpty(b[p]) THEN ParseSome(b, p + 2, n - 1)
  ELSE IF IsChipHeader(b[p])
  THEN LET h    == ParseHits(b, p + 2, 0)
           rest == ParseSome(b, h.next, n - 1)
       IN  IF h.ok /\ Len(h.pix) > 0
           THEN [rest EXCEPT !.chips = <<[id |-> b[p] % 16, pix |-> h.pix,
                                          end |-> Min(h.next - 1, Len(b))]>> \o @]
           ELSE rest
  ELSE IF b[p] = 0 THEN [chips |-> <<>>, next |-> Len(b) + 1]
  ELSE ParseSome(b, p + 1, n - 1)
RECURSIVE ParseChips(_, _)
ParseChips(b, p) ==
  IF p > Len(b) THEN <<>>
  ELSE LET some == ParseSome(b, p, 16) IN some.chips \o ParseChips(b, some.next)

\* decodeAlpideData for the container in slot sl; chips so far, cable icab on
RECURSIVE DecodeCables(_, _, _, _, _)
\* found are the chips with hits in the bytes of cable icab, chips the slots
\* of chipsData filled so far and n the value of nChipsFired.  Each chip found
\* is written to the slot chipData points to, and chipData moves on to slot
\* nChipsFired as long as ++nChipsFired < MaxChipsPerRU (1256 - 1260): the
\* loop of the cable is left when that fails, chipData stays on the last slot
\* and the loop over the cables goes on.
DecodeCable(r, sl, icab, chips, n, found) ==
  LET ruData == r.mRUDecodeVec[sl]
      cd     == ruData.cableData[icab]
      wrongHead == CableUnused(cd) > 0 /\ ~IsChipHeaderOrEmpty(cd.b[cd.p + 1])
      taken  == IF n < MaxChipsPerRU THEN Min(Len(found), MaxChipsPerRU - n)
                ELSE Min(Len(found), 1)
      left   == n + taken >= MaxChipsPerRU /\ taken > 0
      mismatch  == IF RUType(ruData.ruInfo) = 0
                   THEN Cardinality({k \in 1 .. taken : found[k].id # icab}) ELSE 0
      new    == [k \in 1 .. taken |->
                   [chipID |-> GlobalChipID(found[k].id, ruData.cableHWID[icab], ruData.ruInfo),
                    ir |-> r.mInteractionRecord, trigger |-> r.mTrigger, pix |-> found[k].pix,
                    ru |-> ruData.ruInfo, cab |-> icab, seq |-> k, src |-> ruData.cableSrc[icab],
                    ntrig |-> r.nDecoded]]
  IN  DecodeCables([r EXCEPT
                      !.mRUDecodeVec[sl].statistics =
                         Count(Count(@, "ErrCableDataHeadWrong", IF wrongHead THEN 1 ELSE 0),
                               "ErrIBChipLaneMismatch", mismatch),
                      !.mRUDecodeVec[sl].cableData[icab].p =
                         IF left THEN found[taken].end ELSE Len(cd.b),
                      !.mDecodingStat.nNonEmptyChips = @ + taken,
                      !.mDecodingStat.nHitsDecoded =
                         @ + Cardinality(UNION {{k} \X DOMAIN found[k].pix : k \in 1 .. taken})],
                   sl, icab + 1,
                   IF n < MaxChipsPerRU THEN chips \o new
                   ELSE IF taken > 0 THEN [chips EXCEPT ![MaxChipsPerRU] = new[1]]
                   ELSE chips,
                   n + taken)
DecodeCables(r, sl, icab, chips, n) ==
  IF icab >= r.mRUDecodeVec[sl].nCables
  THEN [r EXCEPT !.mRUDecodeVec[sl].chipsData = chips,
                 !.mRUDecodeVec[sl].nChipsFired = n,
                 !.mRUDecodeVec[sl].lastChipChecked = 0]
  ELSE DecodeCable(r, sl, icab, chips, n,
                   ParseChips(r.mRUDecodeVec[sl].cableData[icab].b,
                              r.mRUDecodeVec[sl].cableData[icab].p + 1))
DecodeAlpideData(r, sl) == DecodeCables(r, sl, 0, <<>>, 0)

(***************************************************************************)
(* Decoder: triggers and chips                                             *)
(***************************************************************************)
\* link->data.setPtr(decodeRUData(link->data.getPtr())): out is the result of
\* decodeRUData on link il (735 - 744)
SetLinkPtr(r, sl, il, out) ==
  LET link == r.mRUDecodeVec[sl].links[il]
      data == [link.data EXCEPT !.p = out.raw]
  IN  [r EXCEPT !.mRUDecodeVec[sl] =
                   [out.ru EXCEPT !.links[il] =
                      [link EXCEPT !.data = IF ContIsEmpty(data) THEN EmptyCont ELSE data,
                                   !.nTriggers = @ - 1]],
                !.fault = out.fault, !.pastEnd = @ + out.pastEnd]
\* the loop over the links of decodeNextRUData, link il on; res links decoded
RECURSIVE DecodeLinks(_, _, _, _)
DecodeLinks(r, sl, il, res) ==
  IF il >= MaxLinksPerRU \/ r.fault # "none" THEN [r |-> r, res |-> res]
  ELSE IF r.mRUDecodeVec[sl].links[il].on /\ ~ContIsEmpty(r.mRUDecodeVec[sl].links[il].data)
  THEN DecodeLinks(SetLinkPtr(r, sl, il,
                              DecodeRUData(r.ub, GBTWordSize(r), r.mRUDecodeVec[sl],
                                           r.mRUDecodeVec[sl].links[il].data.c,
                                           r.mRUDecodeVec[sl].links[il].data.p)),
                   sl, il + 1, res + 1)
  ELSE DecodeLinks(r, sl, il + 1, res)

\* decodeNextRUData once the links are decoded (747 - 750)
DecodeLinksDone(sl, dl) ==
  IF dl.r.fault = "none" /\ dl.r.mRUDecodeVec[sl].nCables # 0
  THEN [r |-> DecodeAlpideData(dl.r, sl), res |-> dl.res]
  ELSE dl
DecodeNextRUData(r, sl) ==
  DecodeLinksDone(sl, DecodeLinks([r EXCEPT !.mRUDecodeVec[sl] = ClearTrigger(@)], sl, 0, 0))

\* the trigger is taken from the RDH of the first link with data (703 - 715)
SetTrigger(r, rdh) ==
  [r EXCEPT !.mInteractionRecord = [orbit |-> rdh.orbit, bc |-> rdh.bc],
            !.mTrigger = rdh.trgType,
            !.mInteractionRecordHB = [orbit |-> rdh.hbOrbit, bc |-> rdh.hbBC]]
TakeTrigger(r, ir, nlinks) ==
  LET withData == {il \in Links : r.mRUDecodeVec[ir].links[il].on
                                  /\ ~ContIsEmpty(r.mRUDecodeVec[ir].links[il].data)}
      lnk  == r.mRUDecodeVec[ir].links[SetMin(withData)]
  IN  IF nlinks = 0 /\ withData # {}
      THEN SetTrigger(r, ReadRDH(r.ub, lnk.data.c, lnk.data.p, ZeroRDH))
      ELSE r
\* the loop over the containers of decodeNextTrigger, from container ir down
RECURSIVE DecodeRUs(_, _, _)
\* dn is the result of decodeNextRUData for container ir
DecodeRUsNext(ir, nlinks, dn) ==
  DecodeRUs([dn.r EXCEPT !.mDecodingStat.nRUsProcessed = @ + 1], ir - 1, nlinks + dn.res)
DecodeRUs(r, ir, nlinks) ==
  IF ir < 0 \/ r.fault # "none" THEN [r |-> r, nlinks |-> nlinks]
  ELSE DecodeRUsNext(ir, nlinks, DecodeNextRUData(TakeTrigger(r, ir, nlinks), ir))

\* decodeNextTrigger once the containers are decoded (720 - 722)
DecodeRUsDone(d) ==
  IF d.r.fault # "none" THEN d
  ELSE [r |-> [d.r EXCEPT !.mCurRUDecodeID = 0, !.mMinTriggersCached = @ - 1],
        nlinks |-> d.nlinks]
DecodeNextTrigger(r) ==
  IF r.mMinTriggersCached < 1 THEN [r |-> r, nlinks |-> 0]
  ELSE DecodeRUsDone(DecodeRUs([r EXCEPT !.nDecoded = @ + 1], r.mNRUs - 1, 0))

\* the containers from the current one on that still hold a chip to hand out
Pending(r) ==
  {sl \in RUs : /\ r.mCurRUDecodeID <= sl /\ sl < r.mNRUs
                /\ r.mRUDecodeVec[sl].lastChipChecked < r.mRUDecodeVec[sl].nChipsFired}

\* getNextChipData returns false
NoChip(r, inp) == [r |-> r, file |-> inp, ok |-> FALSE, chip |-> NewChipData(0)]
\* the chip at lastChipChecked of the container in slot sl is handed out (1274 - 1277).
\* With lastChipChecked >= MaxChipsPerRU the swap of line 1276 is an access
\* behind the array chipsData: the process is killed, or what is handed out
\* is what the memory behind the array holds (nothing, or what looks like
\* the chip of the last slot).
YieldChip(st, sl) ==
  LET ruData == st.r.mRUDecodeVec[sl]
      behind == ruData.lastChipChecked >= MaxChipsPerRU
  IN  IF behind /\ st.r.ub = "crash" THEN NoChip([st.r EXCEPT !.fault = "crash"], st.file)
      ELSE [r |-> [st.r EXCEPT !.mCurRUDecodeID = sl,
                               !.mRUDecodeVec[sl].lastChipChecked = @ + 1],
            file |-> st.file, ok |-> TRUE,
            chip |-> IF ~behind THEN ruData.chipsData[ruData.lastChipChecked + 1]
                     ELSE IF st.r.ub = "same" THEN ruData.chipsData[MaxChipsPerRU]
                     ELSE NewChipData(0)]
\* getNextChipData(ChipPixelData&).  st = [r, file]; the result has also
\* ok (the return value) and chip (the data swapped into the argument).
RECURSIVE GetNextChipData(_)
\* dt is the result of decodeNextTrigger (1286 - 1290)
GetNextChipDataDecoded(inp, dt) ==
  IF dt.r.fault # "none" THEN NoChip(dt.r, inp)
  ELSE IF dt.nlinks = 0 THEN NoChip([dt.r EXCEPT !.mCurRUDecodeID = -1], inp)
  ELSE GetNextChipData([r |-> dt.r, file |-> inp])
\* ch is the state after the caching of line 1283
GetNextChipDataCached(ch) ==
  IF ch.r.fault # "none" THEN NoChip(ch.r, ch.file)
  ELSE IF ch.r.mMinTriggersCached < 1 THEN NoChip([ch.r EXCEPT !.mCurRUDecodeID = -1], ch.file)
  ELSE GetNextChipDataDecoded(ch.file, DecodeNextTrigger(ch.r))
\* if (mMinTriggersCached < 2) cacheLinksData(mRawBuffer) (1283)
CacheIfLow(r, inp) ==
  IF r.mMinTriggersCached < 2 THEN CacheLinksData([r |-> r, file |-> inp])
  ELSE [r |-> r, file |-> inp]
GetNextChipData(st) ==
  IF st.r.mCurRUDecodeID >= 0 /\ Pending(st.r) # {}
  THEN YieldChip(st, SetMin(Pending(st.r)))
  ELSE GetNextChipDataCached(
         CacheIfLow(IF st.r.mCurRUDecodeID >= 0 THEN [st.r EXCEPT !.mCurRUDecodeID = 0] ELSE st.r,
                    st.file))

(***************************************************************************)
(* Inputs of the encoding program                                          *)
(***************************************************************************)
MaxHits == 2        \* hits per fired chip in the small digit sets
MaxTriggers == 2    \* digits2raw calls per run

Chips == 0 .. NChips - 1
IRof(k) == [orbit |-> k, bc |-> 8 * k]
\* n digits of one chip, rows descending, columns over several regions
ChipDigits(chip, n) ==
  [i \in 1 .. n |-> [chip |-> chip, row |-> n - i, col |-> (33 * (n - i)) % 1024]]
\* n digits of one chip, all in region 0
BulkDigits(chip, n) ==
  [i \in 1 .. n |-> [chip |-> chip, row |-> (i - 1) \div 32, col |-> (i - 1) % 32]]
RECURSIVE DigitsOf(_, _, _)
\* the chips of fired from chip c on, n digits each, in increasing chip order
DigitsOf(fired, c, n) ==
  IF c >= NChips THEN <<>>
  ELSE (IF c \in fired THEN ChipDigits(c, n) ELSE <<>>) \o DigitsOf(fired, c + 1, n)
FiredSets == {{0}, {1}, {0, 1}, {2}, {3, 4}, {0, 5}, Chips}
SmallDigitSets == {DigitsOf(f, 0, n) : f \in FiredSets, n \in 1 .. MaxHits}
\* hits of chip 0 that fill exactly the given number of pages of RU 0
HitsFilling(pages) == (9 * (pages * MaxGBTWordsPerPacket - 1) - 4) \div 2
BulkDigitSets ==
  {BulkDigits(0, HitsFilling(1)), BulkDigits(0, HitsFilling(1) + 1), BulkDigits(0, HitsFilling(2)),
   BulkDigits(0, HitsFilling(2) + 1)}

CallDigits2Raw(k, digs, lo, hi) ==
  [op |-> "digits2raw", digs |-> digs, ir |-> IRof(k), lo |-> lo, hi |-> hi, n |-> 0, v |-> FALSE]
CallFlush(n) ==
  [op |-> "flushSuperPages", digs |-> <<>>, ir |-> NoIR, lo |-> 0, hi |-> 0, n |-> n, v |-> FALSE]
CallSet(op, v) ==
  [op |-> op, digs |-> <<>>, ir |-> NoIR, lo |-> 0, hi |-> 0, n |-> 0, v |-> v]
AllRUs == 255

\* runs of n calls of digits2raw on all RUs, two small digit sets taking turns
TriggerRuns(n) ==
  {[k \in 1 .. n |-> CallDigits2Raw(k, IF k % 2 = 1 THEN d1 ELSE d2, 0, AllRUs)] :
     d1 \in SmallDigitSets, d2 \in SmallDigitSets}
Scripts ==
  UNION {TriggerRuns(n) : n \in 1 .. MaxTriggers}
  \cup {<<CallDigits2Raw(1, d, 0, AllRUs)>> : d \in BulkDigitSets}
  \cup {<<CallDigits2Raw(1, DigitsOf({1, 2}, 0, 1), 0, AllRUs), CallDigits2Raw(2, d, 0, AllRUs)>> :
          d \in BulkDigitSets}
  \cup {<<CallDigits2Raw(1, d, 0, AllRUs), CallFlush(1), CallDigits2Raw(2, d, lo, lo)>> :
          d \in {DigitsOf(Chips, 0, 1)}, lo \in RUs}
  \cup {<<CallDigits2Raw(1, d, 0, AllRUs), CallDigits2Raw(2, d, lo, lo), CallDigits2Raw(3, d, 0, AllRUs)>> :
          d \in {DigitsOf(Chips, 0, 1)}, lo \in RUs}
  \cup {<<CallDigits2Raw(1, d, 0, AllRUs), CallDigits2Raw(2, d, 0, AllRUs), CallFlush(1)>> :
          d \in {DigitsOf(Chips, 0, 1)}}
  \cup {<<CallDigits2Raw(1, d, 1, 0), CallDigits2Raw(2, d, 0, AllRUs)>> : d \in {DigitsOf(Chips, 0, 1)}}
  \cup {<<CallDigits2Raw(1, d, lo, lo)>> : d \in {DigitsOf(Chips, 0, 1)}, lo \in RUs}
  \cup {<<CallDigits2Raw(1, DigitsOf({2, 5}, 0, MaxHits), 0, AllRUs)>>}
  \cup {<<CallSet("setPadding128", pad), CallSet("imposeMaxPage", mp), CallDigits2Raw(1, d, 0, AllRUs)>> :
          pad \in BOOLEAN, mp \in BOOLEAN, d \in {DigitsOf({0, 5}, 0, 1), BulkDigits(0, HitsFilling(1) + 1)}}

(***************************************************************************)
(* Input files that do not come straight from flushSuperPages              *)
(***************************************************************************)
\* the bytes flushSuperPages writes for one call of digits2raw on all RUs
Flushed(k, digs) ==
  FlushSuperPages(Digits2Raw(NewReader(TRUE, TRUE), digs, IRof(k), 0, AllRUs),
                  EmptyCont, NCRUPagesPerSuperpage).sink.c
\* the 8 KB slots of a flushed stream (a page and its zero padding) reversed
ReverseSlots(chunks) ==
  [i \in 1 .. Len(chunks) |->
     LET slot == (Len(chunks) - i) \div 2 IN chunks[2 * slot + 2 - (i % 2)]]
\* the RDH of page k of a stream fails the heuristic, its other fields intact
CorruptRDH(chunks, k) ==
  [i \in 1 .. Len(chunks) |->
     IF i = 2 * k - 1 THEN [chunks[i] EXCEPT !.rdh.ok = FALSE] ELSE chunks[i]]
StreamDigits == {DigitsOf(Chips, 0, 1), DigitsOf({0, 5}, 0, MaxHits)}
\* the files made of the flushed streams f1 and f2 of two calls
CraftedFrom(f1, f2) ==
  {ReverseSlots(f1),
   <<ZeroChunk(GBTPaddedWordLength)>> \o f1,
   <<ZeroChunk(GBTPaddedWordLength + 1)>> \o f1,
   CorruptRDH(f1 \o f2, 2),
   ReverseSlots(f1) \o f2}
CraftedFiles == UNION {CraftedFrom(Flushed(1, d), Flushed(2, d)) : d \in StreamDigits}
\* the RDH of every page of a stream tells delta bytes more than the page holds,
\* at most the 8 KB of a CRU page
ResizePages(chunks, delta) ==
  [i \in 1 .. Len(chunks) |->
     IF chunks[i].k = "page"
     THEN [chunks[i] EXCEPT !.rdh.memorySize = Min(@ + delta, MaxGBTPacketBytes)]
     ELSE chunks[i]]
SkimFiles ==
  {ResizePages(Flushed(1, d), delta) :
     d \in StreamDigits, delta \in {MaxGBTPacketBytes, 2 * GBTPaddedWordLength, -GBTPaddedWordLength}}

(***************************************************************************)
(* The programs: one encodes its script, flushes and decodes what it       *)
(* wrote, or skims it and decodes what the skim wrote; the others decode   *)
(* or skim a given file.                                                   *)
(***************************************************************************)
NoSkim == [r |-> NewReader(TRUE, TRUE), out |-> EmptyCont, on |-> FALSE]
InitEncode ==
  /\ enc = NewReader(TRUE, TRUE)
  /\ sink = EmptyCont
  /\ script \in Scripts
  /\ dec = NewReader(TRUE, TRUE)
  /\ file = <<>>
  /\ phase = "encode"
  /\ yielded = <<>>
  /\ log = <<>>
  /\ skim = NoSkim
InitDecode ==
  /\ enc = NewReader(TRUE, TRUE)
  /\ sink = EmptyCont
  /\ script = <<>>
  /\ dec = NewReader(TRUE, TRUE)
  /\ file \in CraftedFiles
  /\ phase = "decode"
  /\ yielded = <<>>
  /\ log = <<>>
  /\ skim = NoSkim
\* a program that skims a given file
InitSkim ==
  /\ enc = NewReader(TRUE, TRUE)
  /\ file \in SkimFiles
  /\ sink = [c |-> file, p |-> 0]
  /\ script = <<>>
  /\ dec = NewReader(TRUE, TRUE)
  /\ phase = "skim"
  /\ yielded = <<>>
  /\ log = <<>>
  /\ skim \in {[r |-> NewReader(padding, TRUE), out |-> EmptyCont, on |-> TRUE] :
                 padding \in BOOLEAN}
Init == InitEncode \/ InitDecode \/ InitSkim

NextCall(op) == phase = "encode" /\ enc.fault = "none" /\ Len(script) > 0 /\ script[1].op = op

SetPadding128Step ==
  /\ NextCall("setPadding128")
  /\ enc' = [enc EXCEPT !.mPadding128 = script[1].v]
  /\ script' = Tail(script)
  /\ UNCHANGED <<skim, sink, dec, file, phase, yielded, log>>

ImposeMaxPageStep ==
  /\ NextCall("imposeMaxPage")
  /\ enc' = [enc EXCEPT !.mImposeMaxPage = script[1].v]
  /\ script' = Tail(script)
  /\ UNCHANGED <<skim, sink, dec, file, phase, yielded, log>>

\* the pages a call appended to the link buffers, by container slot and link
PagesAdded(before, after) ==
  [s \in RUs |-> [il \in Links |->
     SubSeq(after.mRUDecodeVec[s].links[il].data.c,
            Len(before.mRUDecodeVec[s].links[il].data.c) + 1,
            Len(after.mRUDecodeVec[s].links[il].data.c))]]

Digits2RawStep ==
  /\ NextCall("digits2raw")
  /\ \E after \in {Digits2Raw(enc, script[1].digs, script[1].ir, script[1].lo, script[1].hi)} :
        /\ enc' = after
        /\ log' = Append(log, [digs |-> script[1].digs, ir |-> script[1].ir,
                               lo |-> script[1].lo, hi |-> script[1].hi,
                               pages |-> PagesAdded(enc, after)])
  /\ script' = Tail(script)
  /\ UNCHANGED <<skim, sink, dec, file, phase, yielded>>

LinksEmpty(r) ==
  \A s \in RUs, il \in Links :
     r.mRUDecodeVec[s].links[il].on => ContIsEmpty(r.mRUDecodeVec[s].links[il].data)

\* the program flushes where its script says so, and at the end until the
\* links are empty
FlushSuperPagesStep ==
  /\ phase = "encode" /\ enc.fault = "none"
  /\ \/ Len(script) > 0 /\ script[1].op = "flushSuperPages"
     \/ Len(script) = 0 /\ ~LinksEmpty(enc)
  /\ \E st \in {FlushSuperPages(enc, sink,
                                IF Len(script) > 0 THEN script[1].n ELSE NCRUPagesPerSuperpage)} :
        enc' = st.r /\ sink' = st.sink
  /\ script' = IF Len(script) > 0 THEN Tail(script) ELSE script
  /\ UNCHANGED <<skim, dec, file, phase, yielded, log>>

\* the flushed bytes become the input file of a reader set up like the encoder
OpenInputStep ==
  /\ phase = "encode" /\ enc.fault = "none"
  /\ Len(script) = 0 /\ LinksEmpty(enc)
  /\ phase' = "decode"
  /\ file' = sink.c
  /\ dec' = NewReader(enc.mPadding128, enc.mImposeMaxPage)
  /\ UNCHANGED <<skim, enc, sink, script, yielded, log>>

\* the flushed bytes become the input file of a reader that skims them to
\* 10-byte words: setPadding128(false) was called on it
OpenForSkimStep ==
  /\ phase = "encode" /\ enc.fault = "none"
  /\ Len(script) = 0 /\ LinksEmpty(enc)
  /\ enc.mPadding128
  /\ phase' = "skim"
  /\ file' = sink.c
  /\ skim' = [r |-> NewReader(FALSE, TRUE), out |-> EmptyCont, on |-> TRUE]
  /\ UNCHANGED <<enc, sink, script, dec, yielded, log>>

\* the program calls skimNextRUData until it returns 0
SkimNextRUDataStep ==
  /\ phase = "skim"
  /\ \E ub \in UBOutcomes :
        \E st \in {SkimNextRUData([r |-> [skim.r EXCEPT !.ub = ub], file |-> file,
                                   out |-> skim.out])} :
           /\ skim' = [skim EXCEPT !.r = st.r, !.out = st.out]
           /\ file' = st.file
           /\ phase' = IF st.res = 1 THEN "skim" ELSE "skimmed"
  /\ UNCHANGED <<enc, sink, script, dec, yielded, log>>

\* the skimmed bytes become the input file of a reader set up like the skimmer
OpenSkimmedStep ==
  /\ phase = "skimmed" /\ skim.r.fault = "none"
  /\ phase' = "decode"
  /\ file' = skim.out.c
  /\ dec' = NewReader(skim.r.mPadding128, TRUE)
  /\ UNCHANGED <<enc, sink, script, yielded, log, skim>>

GetNextChipDataStep ==
  /\ phase = "decode"
  /\ \E ub \in UBOutcomes :
        \E out \in {GetNextChipData([r |-> [dec EXCEPT !.ub = ub], file |-> file])} :
           /\ dec' = out.r
           /\ file' = out.file
           /\ yielded' = IF out.ok THEN Append(yielded, out.chip) ELSE yielded
           /\ phase' = IF out.ok THEN "decode" ELSE "done"
  /\ UNCHANGED <<skim, enc, sink, script, log>>

Next ==
  \/ SetPadding128Step
  \/ ImposeMaxPageStep
  \/ Digits2RawStep
  \/ FlushSuperPagesStep
  \/ OpenInputStep
  \/ GetNextChipDataStep
  \/ OpenForSkimStep
  \/ SkimNextRUDataStep
  \/ OpenSkimmedStep

Spec == Init /\ [][Next]_vars

(***************************************************************************)
(* A program that decodes a file, calls clear() at some point, opens       *)
(* another file and decodes it.                                            *)
(***************************************************************************)
CallClear == [op |-> "clear"]
CallOpenInput(bytes) == [op |-> "openInput", bytes |-> bytes]
ClearInputs ==
  {Flushed(1, d) : d \in StreamDigits} \cup
  {Flushed(1, d) \o Flushed(2, d) \o Flushed(3, d) : d \in StreamDigits}
InitClear ==
  /\ enc = NewReader(TRUE, TRUE)
  /\ sink = EmptyCont
  /\ file \in ClearInputs
  /\ script \in {<<CallClear, CallOpenInput(Flushed(4, d))>> : d \in StreamDigits}
  /\ dec = NewReader(TRUE, TRUE)
  /\ phase = "decode"
  /\ yielded = <<>>
  /\ log = <<>>
  /\ skim = NoSkim

\* clear() is called between two calls of getNextChipData or after the last
ClearStep ==
  /\ phase \in {"decode", "done"} /\ dec.fault = "none"
  /\ Len(script) > 0 /\ script[1].op = "clear"
  /\ dec' = Clear(dec)
  /\ file' = <<>>
  /\ phase' = "cleared"
  /\ script' = Tail(script)
  /\ UNCHANGED <<enc, sink, yielded, log, skim>>

\* openInput on the next file; sink keeps its bytes, yielded starts anew
OpenInputAgainStep ==
  /\ phase = "cleared"
  /\ Len(script) > 0 /\ script[1].op = "openInput"
  /\ dec' = [dec EXCEPT !.mRawBuffer = EmptyCont]
  /\ file' = script[1].bytes
  /\ sink' = [c |-> script[1].bytes, p |-> 0]
  /\ yielded' = <<>>
  /\ phase' = "decode"
  /\ script' = Tail(script)
  /\ UNCHANGED <<enc, log, skim>>

\* the same with a reader that skims the first file
InitClearSkim ==
  /\ enc = NewReader(TRUE, TRUE)
  /\ file \in {Flushed(1, d) : d \in StreamDigits}
  /\ sink = [c |-> file, p |-> 0]
  /\ script \in {<<CallClear, CallOpenInput(Flushed(4, d))>> : d \in StreamDigits}
  /\ dec = NewReader(TRUE, TRUE)
  /\ phase = "skim"
  /\ yielded = <<>>
  /\ log = <<>>
  /\ skim = [r |-> NewReader(FALSE, TRUE), out |-> EmptyCont, on |-> TRUE]

\* clear() of the skimming reader, between two calls of skimNextRUData or
\* after the last; the next file is decoded by the reader dec
ClearSkimStep ==
  /\ phase \in {"skim", "skimmed"} /\ skim.r.fault = "none"
  /\ Len(script) > 0 /\ script[1].op = "clear"
  /\ skim' = [skim EXCEPT !.r = Clear(skim.r)]
  /\ file' = <<>>
  /\ phase' = "cleared"
  /\ script' = Tail(script)
  /\ UNCHANGED <<enc, sink, dec, yielded, log>>

NextClear ==
  \/ GetNextChipDataStep
  \/ ClearStep
  \/ OpenInputAgainStep
  \/ SkimNextRUDataStep
  \/ ClearSkimStep

SpecClear == (InitClear \/ InitClearSkim) /\ [][NextClear]_vars

(***************************************************************************)
(* A program that reads a given file, with getNextChipData or with         *)
(* cacheLinksData and decodeNextTrigger called in any order.               *)
(***************************************************************************)
\* page k of a flushed stream with word i (0: the last) of another kind
SetWord(chunks, k, i, word) ==
  [chunks EXCEPT ![2 * k - 1].w[IF i = 0 THEN Len(chunks[2 * k - 1].w) ELSE i] = word]
\* the streams of three calls, the first damaged in page k
Damaged(d, k) ==
  {SetWord(Flushed(1, d), k, i, StrayWord) \o Flushed(2, d) \o Flushed(3, d) : i \in {0, 1}}
DamagedFiles == UNION {Damaged(d, k) : d \in StreamDigits, k \in 1 .. NRUs}
\* the streams of three calls as flushed
SoundFiles == {Flushed(1, d) \o Flushed(2, d) \o Flushed(3, d) : d \in StreamDigits}
\* page k of a stream carries a feeId that the mapping resolves to no RU
SetFeeId(chunks, k, feeId) == [chunks EXCEPT ![2 * k - 1].rdh.feeId = feeId]
UnknownFeeId == RUSW2FEEId(NRUs, 0)
UnknownFeeFiles ==
  {Flushed(1, d) \o SetFeeId(Flushed(2, d), k, UnknownFeeId) \o Flushed(3, d) :
     d \in StreamDigits, k \in 1 .. NRUs}
\* the page with another page counter in its RDH and its GBT header
SetPageCnt(chunk, n) == [chunk EXCEPT !.rdh.pageCnt = n, !.w[1].pid = n]
\* a trigger of RU 0 made of pages with the page counters cnts (each the first
\* page of the stream with its padding), then the rest of the stream
\* the first data word of the page holds a chip record of 9 bytes (a hit in
\* each of two regions), so that no padding byte follows the record
FillWord(chunk) ==
  [chunk EXCEPT !.w[2].pl = <<@[1], @[2], REGION, DATASHORT, 0, REGION + 1, DATASHORT, 0,
                              CHIPTRAILER>>]
PagedTrigger(f, cnts) ==
  [i \in 1 .. 2 * Len(cnts) |->
     IF i % 2 = 1 THEN SetPageCnt(FillWord(f[1]), cnts[(i + 1) \div 2]) ELSE f[2]]
  \o SubSeq(f, 3, Len(f))
PageCounters == {<<0, 1, 2>>, <<0, 2, 3>>, <<0, 1, 3>>, <<0, 2, 4>>, <<0, 1, 1>>}
PagedFiles ==
  {PagedTrigger(Flushed(1, d), cnts) \o Flushed(2, d) :
     d \in StreamDigits, cnts \in PageCounters}
\* page k of a stream tells the active lanes act in its GBT header and the
\* lanes tmo as timed out in its GBT trailer
SetLanes(chunks, k, act, tmo) ==
  [chunks EXCEPT ![2 * k - 1].w[1].lanes = act,
                 ![2 * k - 1].w[Len(chunks[2 * k - 1].w)].tmo = tmo]
\* a lane beyond the cables of the RU: it never has data
IdleLane == CablesPerRU
LaneSettings ==
  {[act |-> Cables, tmo |-> {0}],
   [act |-> Cables \cup {IdleLane}, tmo |-> {}],
   [act |-> Cables \cup {IdleLane}, tmo |-> {IdleLane}]}
LaneFiles ==
  {SetLanes(Flushed(1, d), 1, ls.act, ls.tmo) \o Flushed(2, d) \o Flushed(3, d) :
     d \in StreamDigits, ls \in LaneSettings}
\* the first trigger of RU 0 has the trigger type trg and an active lane
\* that gets no stop
SetTriggerType(chunks, k, trg) == [chunks EXCEPT ![2 * k - 1].rdh.trgType = trg]
TriggerTypes == {{SOT}, {SOT, PhT}, {PhT}}
UnstoppedFiles ==
  {SetTriggerType(SetLanes(Flushed(1, d), 1, Cables \cup {IdleLane}, {IdleLane}), 1, trg)
     \o Flushed(2, d) \o Flushed(3, d) :
     d \in StreamDigits, trg \in TriggerTypes}
\* data word i of page k of a stream starts with a byte that is neither a
\* chip header nor a chip-empty token; the bytes of the word follow it
SetJunkHead(chunks, k, i) ==
  [chunks EXCEPT ![2 * k - 1].w[i].pl = <<CHIPEMPTY + 31>> \o SubSeq(@, 1, Len(@) - 1)]
JunkHeadFiles ==
  {SetJunkHead(Flushed(1, d), 1, 2) \o Flushed(2, d) \o Flushed(3, d) : d \in StreamDigits}
\* a trigger of three pages of RU 0 whose second page has stop = 1 in its RDH
StopFiles ==
  {[PagedTrigger(Flushed(1, d), <<0, 1, 2>>) EXCEPT ![3].rdh.stop = 1]
     \o Flushed(2, d) : d \in StreamDigits}
\* the bytes of n records of chip 0 with one hit each
ChipRecord == <<CHIPHEADER, 1, REGION, DATASHORT, 0, CHIPTRAILER>>
RecordBytes(n) == [i \in 1 .. Len(ChipRecord) * n |-> ChipRecord[((i - 1) % Len(ChipRecord)) + 1]]
\* the page whose first data word is replaced by the data words of its cable
\* that carry n records of chip 0; the other words of the page stay
CrowdedPage(chunk, n) ==
  LET bytes == RecordBytes(n)
      nw    == (Len(bytes) + 8) \div 9
      words == [j \in 1 .. nw |->
                  [chunk.w[2] EXCEPT !.pl = [i \in 1 .. 9 |->
                     IF 9 * (j - 1) + i <= Len(bytes) THEN bytes[9 * (j - 1) + i] ELSE 0]]]
      size  == RDHSize + (Len(chunk.w) - 1 + nw) * GBTPaddedWordLength
  IN  [chunk EXCEPT !.w = <<@[1]>> \o words \o SubSeq(@, 3, Len(@)),
                    !.sz = size, !.rdh.memorySize = size]
\* a trigger in which cable 0 of RU 0 ships n chips with hits, cable 1 one
Crowded(f, n) ==
  <<CrowdedPage(f[1], n), ZeroChunk(MaxGBTPacketBytes - CrowdedPage(f[1], n).sz)>>
  \o SubSeq(f, 3, Len(f))
CrowdedFiles ==
  {Crowded(Flushed(1, DigitsOf(Chips, 0, 1)), n) \o Flushed(2, DigitsOf(Chips, 0, 1)) :
     n \in {MaxChipsPerRU - 1, MaxChipsPerRU, MaxChipsPerRU + 1}}
\* page k of a stream tells offsetToNext = 0 in its RDH
SetOffset(chunks, k, off) == [chunks EXCEPT ![2 * k - 1].rdh.offsetToNext = off]
ZeroOffsetFiles ==
  {Flushed(1, d) \o SetOffset(Flushed(2, d), k, 0) \o Flushed(3, d) :
     d \in StreamDigits, k \in 1 .. NRUs}
  \cup {SetOffset(Flushed(1, d), k, 0) \o Flushed(2, d) : d \in StreamDigits, k \in 1 .. NRUs}
  \cup {SetOffset(PagedTrigger(Flushed(1, d), <<0, 1, 2>>), 2, 0) \o Flushed(2, d) :
          d \in StreamDigits}
\* a file that holds no RDH
NoRDHFiles == {<<ZeroChunk(2 * GBTPaddedWordLength)>>}
ReadFiles == DamagedFiles \cup SoundFiles \cup UnknownFeeFiles \cup NoRDHFiles \cup PagedFiles
             \cup LaneFiles \cup UnstoppedFiles \cup JunkHeadFiles
             \cup StopFiles \cup CrowdedFiles \cup ZeroOffsetFiles
InitRead ==
  /\ enc = NewReader(TRUE, TRUE)
  /\ file \in ReadFiles
  /\ sink = [c |-> file, p |-> 0]
  /\ script = <<>>
  /\ dec = NewReader(TRUE, TRUE)
  /\ phase \in {"decode", "read"}
  /\ yielded = <<>>
  /\ log = <<>>
  /\ skim = NoSkim

CacheLinksDataStep ==
  /\ phase = "read" /\ dec.fault = "none"
  /\ \E ub \in UBOutcomes :
        \E st \in {CacheLinksData([r |-> [dec EXCEPT !.ub = ub], file |-> file])} :
           dec' = st.r /\ file' = st.file
  /\ UNCHANGED <<enc, sink, script, phase, yielded, log, skim>>

DecodeNextTriggerStep ==
  /\ phase = "read" /\ dec.fault = "none"
  /\ \E ub \in UBOutcomes :
        \E dt \in {DecodeNextTrigger([dec EXCEPT !.ub = ub])} : dec' = dt.r
  /\ UNCHANGED <<enc, sink, script, file, phase, yielded, log, skim>>

NextRead ==
  \/ GetNextChipDataStep
  \/ CacheLinksDataStep
  \/ DecodeNextTriggerStep

SpecRead == InitRead /\ [][NextRead]_vars

(***************************************************************************)
(* Properties of the encoder                                               *)
(***************************************************************************)
\* the page sequences written for one trigger on one link, over all calls made
EncodedTriggers ==
  {log[e].pages[sl][il] : e \in 1 .. Len(log), sl \in RUs, il \in Links} \ {<<>>}
DataWordsOf(page) == SubSeq(page.w, 2, Len(page.w) - 1)
LastWord(page) == page.w[Len(page.w)]

\* C7: the RDH of the last page of every encoded trigger has stop = 1 and the
\* RDH of every earlier page has stop = 0, single-page triggers included.
C7_StopOnLastPageOnly ==
  \A P \in EncodedTriggers :
     /\ P[Len(P)].rdh.stop = 1
     /\ \A i \in 1 .. Len(P) - 1 : P[i].rdh.stop = 0

\* C8: the pages of an encoded trigger have pageCnt 0, 1, 2, ... in emission
\* order and the packet id of each page's data header equals its pageCnt.
C8_PageCounters ==
  \A P \in EncodedTriggers : \A i \in 1 .. Len(P) :
     /\ P[i].rdh.pageCnt = i - 1
     /\ P[i].w[1].t = "H"
     /\ P[i].w[1].pid = P[i].rdh.pageCnt
C8_Witness == \E P \in EncodedTriggers : Len(P) >= 3

\* C9: the trailer of the last page of an encoded trigger stops the lanes
\* announced in the page's data header and has PacketDone set; the trailer of
\* every earlier page has no lane stops and no packet state.
C9_Trailers ==
  \A P \in EncodedTriggers : \A i \in 1 .. Len(P) :
     /\ LastWord(P[i]).t = "T"
     /\ IF i = Len(P)
        THEN LastWord(P[i]).lanes = P[i].w[1].lanes /\ PacketDone \in LastWord(P[i]).st
        ELSE LastWord(P[i]).lanes = {} /\ LastWord(P[i]).st = {}
C9_Witness ==
  \E P \in EncodedTriggers : Len(P) >= 2 /\ LastWord(P[Len(P)]).lanes = Cables

\* C10: every page is one RDH, one data header, at most
\* (MaxGBTPacketBytes - 64) \div 16 - 2 data words and one trailer, at most
\* MaxGBTPacketBytes bytes in all; a page after the first is opened only when
\* the page before it holds exactly that many data words and payload remains.
C10_PageLayout ==
  \A P \in EncodedTriggers : \A i \in 1 .. Len(P) :
     /\ Len(P[i].w) >= 2
     /\ P[i].w[1].t = "H"
     /\ LastWord(P[i]).t = "T"
     /\ \A k \in 1 .. Len(DataWordsOf(P[i])) : DataWordsOf(P[i])[k].t = "D"
     /\ Len(DataWordsOf(P[i])) <= (MaxGBTPacketBytes - RDHSize) \div 16 - 2
     /\ P[i].sz = RDHSize + P[i].wsz * Len(P[i].w)
     /\ P[i].sz <= MaxGBTPacketBytes
     /\ i > 1 => /\ Len(DataWordsOf(P[i - 1])) = (MaxGBTPacketBytes - RDHSize) \div 16 - 2
                 /\ Len(DataWordsOf(P[i])) >= 1
C10_Witness ==
  \E P \in EncodedTriggers :
     /\ Len(P) = 2
     /\ Len(DataWordsOf(P[1])) = (MaxGBTPacketBytes - RDHSize) \div 16 - 2
     /\ Len(DataWordsOf(P[2])) = 1

(***************************************************************************)
(* Properties of the round trip and of the decoder                         *)
(***************************************************************************)
\* the (chip, interaction record, row, column) of the digits given to the
\* encoder, and of the hits handed out by the decoder
HitsEncodedOf(e) ==
  {<<log[e].digs[k].chip, log[e].ir, log[e].digs[k].row, log[e].digs[k].col>> :
     k \in 1 .. Len(log[e].digs)}
HitsYieldedOf(y) ==
  {<<yielded[y].chipID, yielded[y].ir, yielded[y].pix[k].row, yielded[y].pix[k].col>> :
     k \in 1 .. Len(yielded[y].pix)}
AllHitsEncoded == UNION {HitsEncodedOf(e) : e \in 1 .. Len(log)}
AllHitsYielded == UNION {HitsYieldedOf(y) : y \in 1 .. Len(yielded)}
NHitsEncoded == SumOver([e \in 1 .. Len(log) |-> Len(log[e].digs)], 1 .. Len(log))
NHitsYielded == SumOver([y \in 1 .. Len(yielded) |-> Len(yielded[y].pix)], 1 .. Len(yielded))
NoErrorsCounted ==
  \A sl \in RUs, e \in ErrNames : dec.mRUDecodeVec[sl].statistics.errorCounts[e] = 0
\* the run used the default setup and every call encoded all RUs
PlainRun ==
  /\ Len(log) > 0
  /\ enc.mPadding128 /\ enc.mImposeMaxPage
  /\ \A e \in 1 .. Len(log) : log[e].lo = 0 /\ log[e].hi >= NRUs - 1

\* C1: when the decoder has been drained after digits were encoded group by
\* group and all pages flushed, the hits handed out are exactly the digits
\* encoded, as multisets of (chip, ir, row, col), and no error was counted.
C1_RoundTrip ==
  (phase = "done" /\ PlainRun) =>
     /\ AllHitsYielded = AllHitsEncoded
     /\ NHitsYielded = NHitsEncoded
     /\ NoErrorsCounted

\* C2: after bytes that fail the RDH heuristic, the page cached is the page
\* of the recovered RDH: it goes to the RU and link of that RDH and has its
\* memorySize.
C2_ResyncCachesRecoveredPage ==
  \A i \in 1 .. Len(dec.cached) :
     LET ev == dec.cached[i]
     IN  ev.resync => /\ ev.ru = FEEId2RUSW(ev.at.feeId)
                      /\ ev.link = ev.at.linkID
                      /\ ev.size = ev.at.memorySize

\* C3: every chip handed out carries the interaction record and the trigger
\* type of the RDH of the pages its cable data was decoded from.
C3_ChipCarriesItsRDH ==
  \A y \in 1 .. Len(yielded) : \A rdh \in yielded[y].src :
     /\ yielded[y].ir = [orbit |-> rdh.orbit, bc |-> rdh.bc]
     /\ yielded[y].trigger = rdh.trg

\* C4: when getNextChipData has returned "nothing left" and the input is
\* exhausted, no link buffer holds undecoded bytes.
C4_NothingLeftBehind ==
  (phase = "done" /\ dec.fault = "none" /\ file = <<>> /\ ContIsEmpty(dec.mRawBuffer)) =>
     \A sl \in RUs, il \in Links :
        dec.mRUDecodeVec[sl].links[il].on => ContIsEmpty(dec.mRUDecodeVec[sl].links[il].data)

\* C5: the chips of one decoded trigger are handed out in ascending software
\* RU id, then ascending cable, then in the order of the cable's stream.
C5_YieldOrder ==
  \A y \in 1 .. Len(yielded) - 1 :
     LET a == yielded[y]
         b == yielded[y + 1]
     IN  a.ntrig = b.ntrig =>
           \/ a.ru < b.ru
           \/ a.ru = b.ru /\ a.cab < b.cab
           \/ a.ru = b.ru /\ a.cab = b.cab /\ a.seq < b.seq

\* the place in the input of the first page cached for RU ru with the
\* interaction record of rdh (0: none)
FirstCachedAt(ru, rdh) ==
  LET S == {i \in 1 .. Len(dec.cached) :
              /\ dec.cached[i].ru = ru
              /\ dec.cached[i].at.orbit = rdh.orbit /\ dec.cached[i].at.bc = rdh.bc}
  IN  IF S = {} THEN 0 ELSE SetMin(S)

\* C6: the triggers of a link are decoded in the order in which their first
\* pages stand in the input, and the chips of one decoded trigger all come
\* before the chips of the next.
C6_NoReordering ==
  \A y \in 1 .. Len(yielded) - 1 : \A z \in y + 1 .. Len(yielded) :
     LET a == yielded[y]
         b == yielded[z]
     IN  /\ a.ntrig <= b.ntrig
         /\ a.ru = b.ru =>
              \A ra \in a.src, rb \in b.src :
                 FirstCachedAt(a.ru, ra) <= FirstCachedAt(b.ru, rb)

C6_Witness ==
  /\ phase = "done"
  /\ \E y \in 1 .. Len(yielded), z \in 1 .. Len(yielded) :
        /\ yielded[y].ru = yielded[z].ru
        /\ yielded[y].ntrig < yielded[z].ntrig
        /\ yielded[y].src # {} /\ yielded[z].src # {}
        /\ \A ra \in yielded[y].src, rb \in yielded[z].src :
              0 < FirstCachedAt(yielded[y].ru, ra)
              /\ FirstCachedAt(yielded[y].ru, ra) < FirstCachedAt(yielded[z].ru, rb)

(***************************************************************************)
(* Properties of the flushed stream                                        *)
(***************************************************************************)
\* the pages of a byte stream, by their chunk index
PagesIn(chunks) == {i \in 1 .. Len(chunks) : chunks[i].k = "page"}
\* the page that follows page i in the stream, or 0
PageAfter(chunks, i) ==
  IF {j \in PagesIn(chunks) : j > i} = {} THEN 0 ELSE SetMin({j \in PagesIn(chunks) : j > i})

\* C11: in the stream written by flushSuperPages, the RDH of the page that
\* follows a page P starts P.offsetToNext bytes after the RDH of P, with
\* imposeMaxPage on and off.
C11_OffsetLeadsToNextPage ==
  \A i \in PagesIn(sink.c) :
     PageAfter(sink.c, i) # 0 =>
        StartOf(sink.c, PageAfter(sink.c, i)) - StartOf(sink.c, i) = sink.c[i].rdh.offsetToNext

\* the links of the encoder, by container slot and link index
EncLinks == {x \in RUs \X Links : enc.mRUDecodeVec[x[1]].links[x[2]].on}
\* the argument maxPages of the call of flushSuperPages the program makes next
FlushArg == IF Len(script) > 0 THEN script[1].n ELSE NCRUPagesPerSuperpage
\* the pages that call takes from the link x: at most maxPages of those buffered
NTaken(x) == Min(FlushArg, Len(enc.mRUDecodeVec[x[1]].links[x[2]].data.c))
\* what the call appended to the sink
SinkGrowth == SubSeq(sink'.c, Len(sink.c) + 1, Len(sink'.c))

\* what a call of flushSuperPages has done when it returns
FlushedAsAsked ==
  /\ SubSeq(sink'.c, 1, Len(sink.c)) = sink.c
  /\ FlushSuperPages(enc, sink, FlushArg).totPages = SumOver([x \in EncLinks |-> NTaken(x)], EncLinks)
  /\ BytesOf(SinkGrowth) = MaxGBTPacketBytes * FlushSuperPages(enc, sink, FlushArg).totPages
  /\ Cardinality(PagesIn(SinkGrowth)) = FlushSuperPages(enc, sink, FlushArg).totPages
  /\ \A i \in 1 .. Len(SinkGrowth) :
        IF SinkGrowth[i].k = "page" THEN StartOf(SinkGrowth, i) % MaxGBTPacketBytes = 0
        ELSE SinkGrowth[i].k = "zero"
  /\ \A x \in EncLinks :
        /\ enc'.mRUDecodeVec[x[1]].links[x[2]].data.c =
              SubSeq(enc.mRUDecodeVec[x[1]].links[x[2]].data.c, NTaken(x) + 1,
                     Len(enc.mRUDecodeVec[x[1]].links[x[2]].data.c))
        /\ enc'.mRUDecodeVec[x[1]].links[x[2]].nTriggers =
              enc.mRUDecodeVec[x[1]].links[x[2]].nTriggers - NTaken(x)
        /\ SelectSeq(SinkGrowth,
                     LAMBDA c : c.k = "page" /\ c.rdh.feeId =
                                  RUSW2FEEId(enc.mRUDecodeVec[x[1]].ruInfo, x[2])) =
              SubSeq(enc.mRUDecodeVec[x[1]].links[x[2]].data.c, 1, NTaken(x))

\* C12: flushSuperPages takes from every link with buffered pages
\* min(maxPages, pages buffered) complete pages in FIFO order, writes each as
\* MaxGBTPacketBytes bytes (the page, then zeros), lowers nTriggers of the
\* link by the pages taken, leaves the other pages of the link as they were
\* and returns the number of pages written, so that the sink grows by 8192
\* bytes times the value returned.
C12_FlushSuperPages == [][FlushSuperPagesStep => FlushedAsAsked]_vars

(***************************************************************************)
(* Properties of digits2raw                                                *)
(***************************************************************************)
\* the trigger counters of the links of the RUs lo .. hi known to the reader r
TriggerCounts(r, lo, hi) ==
  {r.mRUDecodeVec[r.mRUEntry[x[1]]].links[x[2]].nTriggers :
     x \in {y \in RUs \X Links : /\ lo <= y[1] /\ y[1] <= hi /\ r.mRUEntry[y[1]] >= 0
                                 /\ r.mRUDecodeVec[r.mRUEntry[y[1]]].links[y[2]].on}}

\* C13: digits2raw returns the least nTriggers, after the call, of the links
\* of the RUs in [ruSWMin, ruSWMax], and 0 when there is no such link, an
\* empty range of RUs included.
C13_Digits2RawReturn ==
  [][(Digits2RawStep /\ enc'.fault = "none") =>
       Digits2RawReturn(enc', script[1].lo, script[1].hi) =
          IF TriggerCounts(enc', script[1].lo, script[1].hi) = {} THEN 0
          ELSE SetMin(TriggerCounts(enc', script[1].lo, script[1].hi))]_vars

\* the sequences of a sequence, one after the other
RECURSIVE Flatten(_)
Flatten(ss) == IF Len(ss) = 0 THEN <<>> ELSE ss[1] \o Flatten(Tail(ss))
\* the ALPIDE bytes that the pages carry for the cable with hardware id hw
CableBytesIn(pages, hw) ==
  LET ws == SelectSeq(Flatten([k \in 1 .. Len(pages) |-> DataWordsOf(pages[k])]),
                      LAMBDA w : GetCableID(w.flag) = hw)
  IN  [j \in 1 .. 9 * Len(ws) |-> ws[((j - 1) \div 9) + 1].pl[((j - 1) % 9) + 1]]
\* the hits, as (chip, row, column), in the pages written for the RU ru
HitsInPages(pages, ru) ==
  UNION {UNION {{<<GlobalChipID(ch.id, CableSW2HW(RUType(ru), c), ru), ch.pix[k].row, ch.pix[k].col>> :
                   k \in 1 .. Len(ch.pix)} :
                ch \in {ParseChips(CableBytesIn(pages, CableSW2HW(RUType(ru), c)), 1)[n] :
                          n \in 1 .. Len(ParseChips(CableBytesIn(pages, CableSW2HW(RUType(ru), c)), 1))}} :
         c \in Cables}
\* the digits of the chips of the RU ru, as (chip, row, column)
DigitsOfRU(digs, ru) ==
  {<<digs[k].chip, digs[k].row, digs[k].col>> :
     k \in {j \in 1 .. Len(digs) : ChipInfoSW(digs[j].chip).ru = ru}}
\* the call of digits2raw made next has set up the RU ru and encoded it
EncodedInOwnRU(ru) ==
  /\ enc'.mRUDecodeVec[ru].ruInfo = ru
  /\ \E il \in Links : enc'.mRUDecodeVec[ru].links[il].on
  /\ \A il \in Links : \A k \in 1 .. Len(PagesAdded(enc, enc')[ru][il]) :
        PagesAdded(enc, enc')[ru][il][k].rdh.feeId = RUSW2FEEId(ru, il)
  /\ HitsInPages(Flatten([l \in 1 .. MaxLinksPerRU |-> PagesAdded(enc, enc')[ru][l - 1]]), ru) =
        DigitsOfRU(script[1].digs, ru)

\* C14: in every call of digits2raw with ruSWMin <= ruSWMax (a single RU, a
\* range that does not start at RU 0, a range other than that of an earlier
\* call), each RU of the range has a container with its own ruInfo and a
\* link when its chips are encoded, the digits of a chip go to the cables of
\* the RU that owns it, and the pages written carry the feeId of that RU.
C14_RangeOfRUs ==
  [][(Digits2RawStep /\ script[1].lo <= script[1].hi) =>
       /\ enc'.fault = "none"
       /\ \A ru \in RUs : (script[1].lo <= ru /\ ru <= script[1].hi) => EncodedInOwnRU(ru)]_vars

\* the chip records in the bytes of a cable from position p on, in order:
\* fired tells a chip record with hits from a chip-empty marker
RECURSIVE RecordsIn(_, _)
RecordsIn(b, p) ==
  IF p > Len(b) THEN <<>>
  ELSE IF IsChipEmpty(b[p]) THEN <<[fired |-> FALSE, id |-> b[p] % 16]>> \o RecordsIn(b, p + 2)
  ELSE IF IsChipHeader(b[p])
  THEN <<[fired |-> TRUE, id |-> b[p] % 16]>> \o RecordsIn(b, ParseHits(b, p + 2, 0).next)
  ELSE <<>>
\* the chips of an RU served by the cable c, by their id on the RU, ascending
ChipsOnCable(ru, c) ==
  SelectSeq([k \in 1 .. NChipsOnRUType(RUType(ru)) |-> k - 1],
            LAMBDA ch : ChipOnRUInfo(RUType(ru), ch).cableSW = c)
\* the pages the call e wrote for the RU ru, over its links
PagesOfCall(e, ru) == Flatten([l \in 1 .. MaxLinksPerRU |-> log[e].pages[ru][l - 1]])
\* a chip of an RU has digits in the call e
FiredIn(e, ru, ch) ==
  \E k \in 1 .. Len(log[e].digs) : log[e].digs[k].chip = FirstChipOfRU(ru) + ch

\* C15: in the stream of each cable of an RU encoded for one trigger, the
\* chips of the cable appear in ascending order of their id on the RU, once
\* each: a fired chip as one chip record, a chip without digits (such as
\* every chip skipped between two fired chips) as one chip-empty marker.
C15_EmptyChipMarkers ==
  \A e \in 1 .. Len(log) : \A ru \in RUs : \A c \in Cables :
     (phase = "encode" /\ PagesOfCall(e, ru) # <<>>) =>
        RecordsIn(CableBytesIn(PagesOfCall(e, ru), CableSW2HW(RUType(ru), c)), 1) =
           [k \in 1 .. Len(ChipsOnCable(ru, c)) |->
              [fired |-> FiredIn(e, ru, ChipsOnCable(ru, c)[k]),
               id |-> ChipOnRUInfo(RUType(ru), ChipsOnCable(ru, c)[k]).chipOnModuleHW]]
\* a call encoded an RU with a chip skipped between two fired chips
C15_Witness ==
  \E e \in 1 .. Len(log) : \E ru \in RUs : \E a, b, m \in 0 .. NChipsOnRUType(RUType(ru)) - 1 :
     /\ a < m /\ m < b
     /\ FiredIn(e, ru, a) /\ FiredIn(e, ru, b) /\ ~FiredIn(e, ru, m)
     /\ PagesOfCall(e, ru) # <<>>

\* the call e encoded the RU ru and had no digit of its chips
EmptyTriggerOf(e, ru) ==
  /\ log[e].lo <= ru /\ ru <= log[e].hi
  /\ PagesOfCall(e, ru) # <<>>
  /\ DigitsOfRU(log[e].digs, ru) = {}
\* one page with a data header, a trailer that stops the lanes of the header,
\* and nothing between them
IsEmptyTriggerPage(pages) ==
  /\ Len(pages) = 1
  /\ pages[1].rdh.pageCnt = 0 /\ pages[1].rdh.stop = 1
  /\ Len(pages[1].w) = 2
  /\ pages[1].w[1].t = "H" /\ pages[1].w[2].t = "T"
  /\ pages[1].w[2].lanes = pages[1].w[1].lanes

\* C16: a call of digits2raw for which an RU has no digits writes, on each
\* link of that RU, one page with pageCnt = 0 and stop = 1 made of a data
\* header, no data word and a trailer with lanesStop = lanesActive; the
\* decoder hands out no chip of that RU for the trigger and counts no error.
C16_EmptyTrigger ==
  \A e \in 1 .. Len(log) : \A ru \in RUs :
     EmptyTriggerOf(e, ru) =>
        /\ \A il \in Links : enc.mRUDecodeVec[ru].links[il].on =>
                                IsEmptyTriggerPage(log[e].pages[ru][il])
        /\ (phase = "done" /\ PlainRun) =>
              /\ \A y \in 1 .. Len(yielded) :
                    ~(yielded[y].ru = ru /\ yielded[y].ir = log[e].ir)
              /\ NoErrorsCounted

(***************************************************************************)
(* Properties of skimming                                                  *)
(***************************************************************************)
\* the chips getNextChipData returns, call after call, until it returns false
RECURSIVE ChipsFrom(_)
ChipsRest(o) ==
  IF o.ok THEN <<o.chip>> \o ChipsFrom([r |-> o.r, file |-> o.file]) ELSE <<>>
ChipsFrom(st) == ChipsRest(GetNextChipData(st))
\* the chips a reader of padded words returns for the flushed stream
PaddedChips == ChipsFrom([r |-> NewReader(TRUE, enc.mImposeMaxPage), file |-> sink.c])
SkimmedCompact == skim.on /\ ~skim.r.mPadding128 /\ Len(log) > 0

\* C17: the chips decoded from the skim output by a reader of 10-byte words
\* are the chips decoded from the padded stream that was skimmed.
C17_PaddingEquivalence ==
  (phase = "done" /\ SkimmedCompact) => yielded = PaddedChips

\* the bytes written by a reader that calls skimNextRUData on bytes until it
\* returns 0; ub is what its reads outside the stored bytes do
RECURSIVE SkimAll(_)
SkimMore(st) ==
  IF st.res = 1 /\ st.r.fault = "none" THEN SkimAll(st) ELSE st.out.c
SkimAll(st) == SkimMore(SkimNextRUData([r |-> st.r, file |-> st.file, out |-> st.out]))
Skimmed(padding, ub, bytes) ==
  SkimAll([r |-> [NewReader(padding, TRUE) EXCEPT !.ub = ub], file |-> bytes, out |-> EmptyCont])
SkimDone == phase = "skimmed" /\ skim.r.fault = "none"

\* C18: skimming the bytes a skim has written writes the same bytes again.
C18_SkimIdempotent ==
  SkimDone => \A ub \in UBOutcomes : Skimmed(skim.r.mPadding128, ub, skim.out.c) = skim.out.c

\* the pages the skimNextRUData call of a step added to its output buffer
SkimAdded == SubSeq(skim'.out.c, Len(skim.out.c) + 1, Len(skim'.out.c))
\* the data words of a page that come before its first data trailer
WordsBeforeTrailer(w) ==
  LET trailers == {i \in 2 .. Len(w) : w[i].t = "T"}
  IN  SubSeq(w, 2, IF trailers = {} THEN Len(w) ELSE SetMin(trailers) - 1)
\* the pages of the input the output page pg can come from
InputPagesOf(pg) ==
  {i \in 1 .. Len(sink.c) :
     /\ sink.c[i].k = "page"
     /\ [sink.c[i].rdh EXCEPT !.memorySize = 0, !.offsetToNext = 0] =
        [pg.rdh EXCEPT !.memorySize = 0, !.offsetToNext = 0]}
SkimmedPageOK(pg) ==
  /\ pg.k = "page"
  /\ pg.rdh.memorySize = RDHSize + GBTWordLength * (2 + Len(WordsBeforeTrailer(pg.w)))
  /\ pg.rdh.offsetToNext = pg.rdh.memorySize
  /\ pg.sz = pg.rdh.memorySize
  /\ Len(pg.w) = 2 + Len(WordsBeforeTrailer(pg.w))
  /\ \E i \in InputPagesOf(pg) : WordsBeforeTrailer(pg.w) = WordsBeforeTrailer(sink.c[i].w)

NothingKept(r) ==
  /\ r.mNRUs = 0 /\ r.mNLinks = 0
  /\ \A ru \in RUs : r.mRUEntry[ru] < 0
  /\ \A s \in RUs, il \in Links :
        r.mRUDecodeVec[s].links[il].on =>
          /\ ContSize(r.mRUDecodeVec[s].links[il].data) = 0
          /\ r.mRUDecodeVec[s].links[il].nTriggers = 0
  /\ r.mMinTriggersCached = 0
\* the chips a reader as constructed returns for the file opened after clear()
FreshChips == ChipsFrom([r |-> NewReader(TRUE, TRUE), file |-> sink.c])

\* C20: after clear() the reader knows no RU, keeps no page and no trigger
\* count on a link and no cached-trigger minimum, and the file decoded next
\* gives the chips that a reader as constructed gives for it.
C20_ClearDiscards ==
  /\ phase = "cleared" => NothingKept(dec)
  /\ (phase = "done" /\ Len(script) = 0 /\ dec.fault = "none") => yielded = FreshChips

(***************************************************************************)
(* Properties of the statistics                                            *)
(***************************************************************************)
\* no counter of the reader b is below its value in the reader a
CountersKept(a, b) ==
  /\ \A s \in RUs :
        /\ \A e \in ErrNames : b.mRUDecodeVec[s].statistics.errorCounts[e] >=
                               a.mRUDecodeVec[s].statistics.errorCounts[e]
        /\ b.mRUDecodeVec[s].statistics.nPackets >= a.mRUDecodeVec[s].statistics.nPackets
        /\ Len(b.mRUDecodeVec[s].statistics.packetStates) >=
           Len(a.mRUDecodeVec[s].statistics.packetStates)
  /\ b.mDecodingStat.nPagesProcessed >= a.mDecodingStat.nPagesProcessed
  /\ b.mDecodingStat.nRUsProcessed >= a.mDecodingStat.nRUsProcessed
  /\ b.mDecodingStat.nBytesProcessed >= a.mDecodingStat.nBytesProcessed
  /\ b.mDecodingStat.nNonEmptyChips >= a.mDecodingStat.nNonEmptyChips
  /\ b.mDecodingStat.nHitsDecoded >= a.mDecodingStat.nHitsDecoded
\* every counter of the reader r is 0
CountersZero(r) ==
  /\ \A s \in RUs :
        /\ \A e \in ErrNames : r.mRUDecodeVec[s].statistics.errorCounts[e] = 0
        /\ r.mRUDecodeVec[s].statistics.nPackets = 0
        /\ r.mRUDecodeVec[s].statistics.packetStates = <<>>
  /\ r.mDecodingStat = NewRawDecodingStat
SomeCounted(r) ==
  /\ r.mDecodingStat.nPagesProcessed > 0
  /\ \E s \in RUs : r.mRUDecodeVec[s].statistics.nPackets > 0

\* C21: no call of getNextChipData (with the cacheLinksData and
\* decodeNextTrigger calls it makes) or skimNextRUData lowers a counter of
\* an RU or a global decoding counter, and clear() sets them all to 0.
C21_Counters ==
  [][/\ GetNextChipDataStep => CountersKept(dec, dec')
     /\ SkimNextRUDataStep => CountersKept(skim.r, skim'.r)
     /\ ClearStep => CountersZero(dec')
     /\ ClearSkimStep => CountersZero(skim'.r)]_vars
\* clear() was called on a reader that had counted pages and packets, after
\* several triggers or after a skim
C21_Witness ==
  /\ phase = "cleared"
  /\ \/ Len(yielded) > 0 /\ CountersZero(dec) /\ dec.nDecoded > 1
     \/ skim.on /\ CountersZero(skim.r) /\ Len(skim.out.c) > 0

(***************************************************************************)
(* Properties of the reading of damaged input                              *)
(***************************************************************************)
\* the pages of a stream without GBT data header or without data trailer
PagesDamaged(chunks) ==
  {i \in 1 .. Len(chunks) :
     /\ chunks[i].k = "page"
     /\ chunks[i].w[1].t # "H" \/ chunks[i].w[Len(chunks[i].w)].t # "T"}
\* the triggers (page 0 of each) stored in a link buffer from its pointer on
TriggersLeft(data) ==
  {i \in 1 .. Len(data.c) :
     /\ StartOf(data.c, i) >= data.p
     /\ data.c[i].k = "page" /\ data.c[i].rdh.pageCnt = 0}
\* the link stands at the first page of a trigger and counts the triggers left
LinkAtTrigger(link) ==
  IF ContIsEmpty(link.data) THEN link.nTriggers = 0
  ELSE /\ ChunkAt(link.data.c, link.data.p) \in TriggersLeft(link.data)
       /\ link.nTriggers = Cardinality(TriggersLeft(link.data))
LinksAtTrigger(r) ==
  \A s \in RUs, il \in Links :
     r.mRUDecodeVec[s].links[il].on => LinkAtTrigger(r.mRUDecodeVec[s].links[il])
MissingCounted(r) ==
  SumOver([s \in RUs |-> r.mRUDecodeVec[s].statistics.errorCounts["ErrMissingGBTHeader"]
                         + r.mRUDecodeVec[s].statistics.errorCounts["ErrMissingGBTTrailer"]], RUs)
\* the chips of the triggers after the first in what was yielded
\* what the caller gets of a sequence of chips
DataOf(chips) ==
  [k \in 1 .. Len(chips) |->
     [chipID |-> chips[k].chipID, ir |-> chips[k].ir, trigger |-> chips[k].trigger,
      pix |-> chips[k].pix]]
LaterChips == DataOf(SelectSeq(yielded, LAMBDA ch : ch.ir # IRof(1)))
OneDamaged == Cardinality(PagesDamaged(sink.c)) = 1 /\ dec.fault = "none"

\* C22: when one page of the first trigger lacks its GBT header or trailer,
\* the error is counted once, every link is left at the first page of the
\* next trigger it stores with nTriggers the number of triggers left, and
\* the triggers that follow are decoded as they are without the damage.
C22_AbortIsLocal ==
  OneDamaged =>
    /\ LinksAtTrigger(dec)
    /\ phase = "done" =>
         /\ MissingCounted(dec) = 1
         /\ LaterChips = DataOf(ChipsFrom([r |-> NewReader(TRUE, TRUE),
                                           file |-> SubSeq(sink.c, 2 * NRUs + 1, Len(sink.c))]))

(***************************************************************************)
(* Properties of the reading of pages with an unknown feeId                *)
(***************************************************************************)
\* the file that was opened has a page whose feeId belongs to no RU
FeeUnknown ==
  \E i \in 1 .. Len(sink.c) :
     sink.c[i].k = "page" /\ FEEId2RUSW(sink.c[i].rdh.feeId) \notin RUs
\* the chips of the trigger that follows the page of the unknown feeId
ChipsBehind == DataOf(SelectSeq(yielded, LAMBDA ch : ch.ir = IRof(3)))

\* C23: a page whose feeId resolves to no RU makes the call in progress
\* return (the reader does not die in it), and the valid triggers behind
\* the page are still decoded
C23_UnknownFeeId ==
  FeeUnknown =>
    /\ dec.fault = "none"
    /\ phase = "done" =>
         ChipsBehind = DataOf(ChipsFrom([r |-> NewReader(TRUE, TRUE),
                                         file |-> SubSeq(sink.c, 4 * NRUs + 1, Len(sink.c))]))

(***************************************************************************)
(* Properties of the links of the reader                                   *)
(***************************************************************************)
\* the links that exist in the reader, as pairs of a slot and a link number
KnownLinks(r) == {x \in RUs \X Links : r.mRUDecodeVec[x[1]].links[x[2]].on}
\* the position where cacheLinksData looks for the RDH of the last page (634)
LastPageAt(link) == ContSize(link.data) - link.lastPageSize
\* the pages cached on the link of the RU in slot s, in the order of caching
CachedOn(r, s, il) ==
  SelectSeq(r.cached, LAMBDA ev : ev.ru = r.mRUDecodeVec[s].ruInfo /\ ev.link = il)
\* same page: the fields of the RDH that cacheLinksData leaves as they are
SamePage(a, b) ==
  /\ a.feeId = b.feeId /\ a.linkID = b.linkID /\ a.pageCnt = b.pageCnt
  /\ a.orbit = b.orbit /\ a.bc = b.bc
  /\ a.memorySize = b.memorySize
LastPageKept(r, s, il) ==
  LET link == r.mRUDecodeVec[s].links[il]
      at   == ChunkAt(link.data.c, LastPageAt(link))
      log0 == CachedOn(r, s, il)
  IN  /\ Stored(link.data.c, LastPageAt(link))
      /\ at # 0
      /\ link.data.c[at].k = "page"
      /\ Len(log0) > 0 /\ SamePage(link.data.c[at].rdh, log0[Len(log0)].at)

\* C24: for every link of the reader the position end of buffer minus
\* lastPageSize lies inside the buffer of the link and holds the RDH of the
\* page cached last on the link, also after the buffer was consumed and cleared
C24_LastPageRDH ==
  dec.fault = "none" => \A x \in KnownLinks(dec) : LastPageKept(dec, x[1], x[2])

\* the link counts the pages 0 that it stores and has not consumed
TriggersCounted(link) ==
  /\ link.nTriggers = Cardinality(TriggersLeft(link.data))
  /\ link.nTriggers >= 0
  /\ link.nTriggers = 0 <=> ContIsEmpty(link.data)

\* C25: nTriggers of every link is the number of RDHs of page counter 0 stored
\* in its buffer and not consumed yet, is never negative and is 0 exactly when
\* the buffer holds no unconsumed page
C25_TriggersCounted ==
  dec.fault = "none" =>
    \A x \in KnownLinks(dec) : TriggersCounted(dec.mRUDecodeVec[x[1]].links[x[2]])

\* the least nTriggers of the links of the reader, 0 when it has none
MinOverLinks(r) ==
  IF KnownLinks(r) = {} THEN 0
  ELSE SetMin({r.mRUDecodeVec[x[1]].links[x[2]].nTriggers : x \in KnownLinks(r)})

\* C27: after any calls of cacheLinksData and decodeNextTrigger,
\* mMinTriggersCached is the minimum of nTriggers over the known links, and 0
\* when no link is known
C27_MinTriggersCached ==
  dec.fault = "none" => dec.mMinTriggersCached = MinOverLinks(dec)

(***************************************************************************)
(* Properties of the start of the decoding of a trigger                    *)
(***************************************************************************)
\* the reader and the input at line 1286 of a call of getNextChipData made
\* in this state that has no decoded chip to hand out
AtDecode(ub) ==
  CacheIfLow(IF dec.mCurRUDecodeID >= 0
             THEN [dec EXCEPT !.ub = ub, !.mCurRUDecodeID = 0]
             ELSE [dec EXCEPT !.ub = ub],
             file)
\* the call goes on to decodeNextTrigger, which passes its own test of line 697
StartsDecoding(ch) == ch.r.fault = "none" /\ ch.r.mMinTriggersCached >= 1
\* bytes of the input are left in the file or in the raw buffer
InputLeft(ch) == ch.file # <<>> \/ ~ContIsEmpty(ch.r.mRawBuffer)

\* C26: while input is left, getNextChipData starts the decoding of a trigger
\* only when every known link holds at least 2 cached triggers
C26_CompleteAssembly ==
  (phase = "decode" /\ dec.fault = "none" /\ ~(dec.mCurRUDecodeID >= 0 /\ Pending(dec) # {})) =>
    \A ub \in UBOutcomes :
       (StartsDecoding(AtDecode(ub)) /\ InputLeft(AtDecode(ub))) =>
          \A x \in KnownLinks(AtDecode(ub).r) :
             AtDecode(ub).r.mRUDecodeVec[x[1]].links[x[2]].nTriggers >= 2

(***************************************************************************)
(* Properties of the checks made between the pages of a trigger            *)
(***************************************************************************)
\* the pages of an RU in a file, in the order of the file
PagesOfRU(chunks, ru) ==
  SelectSeq(chunks, LAMBDA c : c.k = "page" /\ FEEId2RUSW(c.rdh.feeId) = ru)
\* page i goes on with the trigger of the page before it
GoesOn(pages, i) == i > 1 /\ IsSameRUandTrigger(pages[i - 1].rdh, pages[i].rdh)
\* the number of the trigger that page i belongs to
TriggerOf(pages, i) == Cardinality({j \in 1 .. i : ~GoesOn(pages, j)})
\* the pairs of pages of the first n triggers whose counters do not follow
Gaps(pages, n) ==
  {i \in 2 .. Len(pages) :
     /\ GoesOn(pages, i) /\ TriggerOf(pages, i) <= n
     /\ pages[i].rdh.pageCnt # pages[i - 1].rdh.pageCnt + 1}
Discontinuities(r, s) ==
  r.mRUDecodeVec[s].statistics.errorCounts["ErrPageCounterDiscontinuity"]

\* C28: ErrPageCounterDiscontinuity of an RU is the number of pairs of
\* consecutive pages of one trigger, among the triggers decoded so far, whose
\* page counters are not pageCnt and pageCnt + 1
C28_PageCounter ==
  (sink.c \in PagedFiles \cup SoundFiles /\ dec.fault = "none") =>
    \A s \in RUs :
       s < dec.mNRUs =>
         Discontinuities(dec, s) =
           Cardinality(Gaps(PagesOfRU(sink.c, dec.mRUDecodeVec[s].ruInfo), dec.nDecoded))
C28_Witness ==
  /\ phase = "done" /\ dec.fault = "none" /\ dec.nDecoded = 2
  /\ sink.c \in PagedFiles
  /\ Discontinuities(dec, dec.mRUEntry[0]) = 2

(***************************************************************************)
(* Properties of the checks made at the end of a trigger                   *)
(***************************************************************************)
\* the lanes that have a data word in a page of the RU
LanesWithData(page, ru) ==
  {CableHW2SW(RUType(ru), GetCableID(page.w[i].flag)) : i \in 2 .. Len(page.w) - 1}
\* the page of a one-page trigger has an active lane that neither timed out
\* nor sent data
LaneMissing(page, ru) ==
  page.w[1].lanes \ (page.w[Len(page.w)].tmo \cup LanesWithData(page, ru)) # {}
NoDataCounted(r, s) == r.mRUDecodeVec[s].statistics.errorCounts["ErrNoDataForActiveLane"]
\* the triggers of one page among the first n of the RU that miss a lane
TriggersMissing(pages, ru, n) ==
  {i \in 1 .. Len(pages) : i <= n /\ LaneMissing(pages[i], ru)}

\* C29: ErrNoDataForActiveLane of an RU counts the decoded triggers in which
\* some lane is active, has not timed out in the trigger and has sent no data
C29_NoDataForActiveLane ==
  (sink.c \in LaneFiles \cup SoundFiles /\ dec.fault = "none") =>
    \A s \in RUs :
       s < dec.mNRUs =>
         NoDataCounted(dec, s) =
           Cardinality(TriggersMissing(PagesOfRU(sink.c, dec.mRUDecodeVec[s].ruInfo),
                                       dec.mRUDecodeVec[s].ruInfo, dec.nDecoded))

\* the page of a one-page trigger leaves an active lane without stop and its
\* trigger type has no SOT bit
LaneUnstopped(page) ==
  page.w[1].lanes # page.w[Len(page.w)].lanes /\ SOT \notin page.rdh.trgType
UnstoppedCounted(r, s) == r.mRUDecodeVec[s].statistics.errorCounts["ErrUnstoppedLanes"]
TriggersUnstopped(pages, n) == {i \in 1 .. Len(pages) : i <= n /\ LaneUnstopped(pages[i])}

\* C30: ErrUnstoppedLanes of an RU counts the decoded triggers whose active
\* lanes differ from the stopped lanes and whose trigger type has no SOT bit
C30_UnstoppedLanes ==
  (sink.c \in UnstoppedFiles \cup SoundFiles /\ dec.fault = "none") =>
    \A s \in RUs :
       s < dec.mNRUs =>
         UnstoppedCounted(dec, s) =
           Cardinality(TriggersUnstopped(PagesOfRU(sink.c, dec.mRUDecodeVec[s].ruInfo),
                                         dec.nDecoded))

(***************************************************************************)
(* Properties of the data words of stopped lanes                           *)
(***************************************************************************)
\* the lanes stopped by the trailers of the pages of its trigger before page i
StopsBefore(pages, i) ==
  UNION {pages[j].w[Len(pages[j].w)].lanes :
           j \in {k \in 1 .. i - 1 : TriggerOf(pages, k) = TriggerOf(pages, i)}}
\* the data words of page i that come for a lane stopped before
StoppedWords(pages, ru, i) ==
  {k \in 2 .. Len(pages[i].w) - 1 :
     CableHW2SW(RUType(ru), GetCableID(pages[i].w[k].flag)) \in StopsBefore(pages, i)}
StoppedCounted(r, s) == r.mRUDecodeVec[s].statistics.errorCounts["ErrDataForStoppedLane"]
\* the data words of lane c in the pages of trigger n
WordsOfLane(pages, ru, n, c) ==
  UNION {{<<i, k>> : k \in {j \in 2 .. Len(pages[i].w) - 1 :
                              CableHW2SW(RUType(ru), GetCableID(pages[i].w[j].flag)) = c}} :
           i \in {j \in 1 .. Len(pages) : TriggerOf(pages, j) = n}}

\* the bytes that the data words of a page bring for lane c
LaneBytes(page, ru, c) ==
  LET ws == SelectSeq(SubSeq(page.w, 2, Len(page.w) - 1),
                      LAMBDA w : CableHW2SW(RUType(ru), GetCableID(w.flag)) = c)
  IN  [j \in 1 .. 9 * Len(ws) |-> ws[((j - 1) \div 9) + 1].pl[((j - 1) % 9) + 1]]
\* the bytes that the pages from page i on bring for lane c in trigger n
RECURSIVE TriggerBytes(_, _, _, _, _)
TriggerBytes(pages, ru, n, c, i) ==
  IF i > Len(pages) THEN <<>>
  ELSE (IF TriggerOf(pages, i) = n THEN LaneBytes(pages[i], ru, c) ELSE <<>>)
       \o TriggerBytes(pages, ru, n, c, i + 1)
\* the number of chips with hits in the bytes of the lanes of trigger n
TriggerChips(pages, ru, n) ==
  SumOver([c \in Cables |-> Len(ParseChips(TriggerBytes(pages, ru, n, c, 1), 1))], Cables)

\* C31: ErrDataForStoppedLane of an RU is the number of data words, in the
\* triggers decoded so far, that came for a lane stopped earlier in their
\* trigger, and the cable buffers of the trigger decoded last hold 9 bytes of
\* every data word of their lane, those of stopped lanes included, all of
\* them decoded: the RU has the chips of every page of the trigger
C31_DataForStoppedLane ==
  (sink.c \in PagedFiles \cup SoundFiles /\ dec.fault = "none") =>
    \A s \in RUs :
       s < dec.mNRUs =>
         LET ru    == dec.mRUDecodeVec[s].ruInfo
             pages == PagesOfRU(sink.c, ru)
         IN  /\ StoppedCounted(dec, s) =
                  SumOver([i \in 1 .. Len(pages) |->
                             IF TriggerOf(pages, i) <= dec.nDecoded
                             THEN Cardinality(StoppedWords(pages, ru, i)) ELSE 0],
                          1 .. Len(pages))
             /\ dec.nDecoded > 0 =>
                  \A c \in Cables :
                     /\ Len(dec.mRUDecodeVec[s].cableData[c].b) =
                          9 * Cardinality(WordsOfLane(pages, ru, dec.nDecoded, c))
                     /\ dec.mRUDecodeVec[s].nChipsFired = TriggerChips(pages, ru, dec.nDecoded)
C31_Witness ==
  /\ sink.c \in PagedFiles /\ dec.fault = "none" /\ dec.nDecoded = 1
  /\ StoppedCounted(dec, dec.mRUEntry[0]) = 4
  /\ dec.mRUDecodeVec[dec.mRUEntry[0]].nChipsFired >= 3
  /\ Len(yielded) > 0

(***************************************************************************)
(* Properties of the decoding of the cable buffers                         *)
(***************************************************************************)
HeadWrongCounted(r, s) == r.mRUDecodeVec[s].statistics.errorCounts["ErrCableDataHeadWrong"]
\* the lane of data word i of a page of the RU
LaneOfWord(page, ru, i) == CableHW2SW(RUType(ru), GetCableID(page.w[i].flag))
\* the chips handed out of a cable of an RU for an interaction record
ChipsOfCable(ru, cab, ir) ==
  SelectSeq(yielded, LAMBDA ch : ch.ru = ru /\ ch.cab = cab /\ ch.ir = ir)

\* C32: a cable buffer that starts with a byte that is neither a chip header
\* nor a chip-empty token is counted once in ErrCableDataHeadWrong, and no chip
\* of that cable is handed out for the trigger
C32_CableDataHeadWrong ==
  (sink.c \in JunkHeadFiles /\ dec.fault = "none" /\ dec.nDecoded >= 1) =>
    /\ HeadWrongCounted(dec, dec.mRUEntry[0]) = 1
    /\ ChipsOfCable(0, LaneOfWord(sink.c[1], 0, 2), IRof(1)) = <<>>

(***************************************************************************)
(* Properties of the end of a trigger on a link                            *)
(***************************************************************************)
\* the data words of lane c in the first n pages
WordsUpTo(pages, ru, n, c) ==
  {x \in WordsOfLane(pages, ru, 1, c) : x[1] <= n}
\* the first page of pages with stop = 1 in its RDH
FirstStop(pages) == SetMin({k \in 1 .. Len(pages) : pages[k].rdh.stop = 1})

\* C33: a page with stop = 1 ends the trigger of its link: the page that
\* follows it on the link, with the next page counter and the same feeId,
\* orbit, bc and trigger type, is not taken into the trigger
C33_StopEndsTrigger ==
  (sink.c \in StopFiles /\ dec.fault = "none" /\ dec.nDecoded = 1) =>
    \A c \in Cables :
       Len(dec.mRUDecodeVec[dec.mRUEntry[0]].cableData[c].b) =
         9 * Cardinality(WordsUpTo(PagesOfRU(sink.c, 0), 0, FirstStop(PagesOfRU(sink.c, 0)), c))

(***************************************************************************)
(* Properties of the pages in the link buffers of the encoder              *)
(***************************************************************************)
\* the pages that the links of the reader hold
PagesInLinks(r) ==
  UNION {{r.mRUDecodeVec[x[1]].links[x[2]].data.c[i] :
            i \in {j \in 1 .. Len(r.mRUDecodeVec[x[1]].links[x[2]].data.c) :
                     r.mRUDecodeVec[x[1]].links[x[2]].data.c[j].k = "page"}} :
           x \in KnownLinks(r)}

\* C34: the RDH of every page that fillRULinks writes to a link buffer tells
\* in memorySize the number of bytes written for the page
C34_MemorySize ==
  (phase = "encode" /\ enc.fault = "none") =>
    \A page \in PagesInLinks(enc) : page.rdh.memorySize = page.sz

(***************************************************************************)
(* Properties of the chip slots of the RU containers                       *)
(***************************************************************************)
\* the counters of the chip slots of the containers of r are in order
SlotsInOrder(r) ==
  \A s \in DOMAIN r.mRUDecodeVec :
     /\ 0 <= r.mRUDecodeVec[s].lastChipChecked
     /\ r.mRUDecodeVec[s].lastChipChecked <= r.mRUDecodeVec[s].nChipsFired
     /\ r.mRUDecodeVec[s].nChipsFired <= MaxChipsPerRU

\* C35: in every state of the decoder every RU container has
\* 0 <= lastChipChecked <= nChipsFired <= MaxChipsPerRU, also when the cables
\* of a trigger ship more than MaxChipsPerRU chips with hits
C35_ChipSlots == SlotsInOrder(dec)

(***************************************************************************)
(* Properties of the reads of decodeRUData in the link buffers             *)
(***************************************************************************)
\* C36: whenever decodeRUData follows offsetToNext to see whether the next
\* page goes on with the trigger, the position it reads as an RDH lies inside
\* the bytes stored in the link buffer
C36_ReadsInsideLink == dec.pastEnd = 0

(***************************************************************************)
(* Properties of the scan of the raw buffer by cacheLinksData              *)
(***************************************************************************)
\* C37: every iteration of the loop of cacheLinksData moves the read cursor
\* of the raw buffer on, also for a page whose RDH passes the heuristic and
\* tells offsetToNext = 0: no page is cached a second time and the loop ends
C37_ScanAdvances == dec.fault \notin {"hang", "recached"}

(***************************************************************************)
(* Properties of the output buffer of the skimmer                          *)
(***************************************************************************)
\* the reader and the file once skimNextRUData has loaded its input
SkimInput(ub) == LoadInput([r |-> [skim.r EXCEPT !.ub = ub], file |-> file])
\* what skimPaddedRUData returns in the skimNextRUData call made now
SkimResult(ub) == SkimPaddedRUData(SkimInput(ub).r, SkimInput(ub).r.mRawBuffer.p)
\* the skimNextRUData call made now runs skimPaddedRUData, which aborts
SkimAborts(ub) ==
  /\ phase = "skim"
  /\ ~ContIsEmpty(SkimInput(ub).r.mRawBuffer)
  /\ SkimResult(ub).r.fault = "none"
  /\ SkimResult(ub).aborted

LinkObjects(r) == {x \in RUs \X Links : r.mRUDecodeVec[x[1]].links[x[2]].on}

\* C39: after any sequence of digits2raw, cacheLinksData and clear() calls
\* mNLinks of a reader is the number of link objects in its RU containers
C39_LinksCounted ==
  /\ enc.mNLinks = Cardinality(LinkObjects(enc))
  /\ dec.fault = "none" => dec.mNLinks = Cardinality(LinkObjects(dec))
  /\ (skim.on /\ skim.r.fault = "none") => skim.r.mNLinks = Cardinality(LinkObjects(skim.r))

(***************************************************************************)
(* Properties of the byte counter of the decoder                           *)
(***************************************************************************)
\* the sum of the memorySize of the pages that cacheLinksData has counted
BytesOfPages(r) == SumOver([i \in DOMAIN r.cached |-> r.cached[i].size], DOMAIN r.cached)

\* C40: nBytesProcessed of the reader of a file is the sum of the RDH
\* memorySize of the pages counted in nPagesProcessed
C40_BytesOfPages ==
  dec.fault = "none" =>
    /\ dec.mDecodingStat.nPagesProcessed = Len(dec.cached)
    /\ dec.mDecodingStat.nBytesProcessed = BytesOfPages(dec)

=============================================================================
